---- MODULE Spec2Model ----
(***************************************************************************)
(* Model of the workflow orchestrator (agent_server.py) and of the MCP     *)
(* tool-invocation client (utils/mcp_client.py, mcp_config.py).            *)
(*                                                                         *)
(* Python dicts are modelled as functions whose DOMAIN is the set of keys  *)
(* present, so "key in dict" is "key \in DOMAIN dict".                     *)
(***************************************************************************)
EXTENDS Integers, Sequences, FiniteSets, TLC

(* ---------------- bounds ---------------- *)
NumRuns == 2            \* execute_workflow calls (request threads)
MaxClock == 1           \* time.time() takes the values 0..MaxClock
NumStoreRuns == 1       \* execute_workflow calls running beside the queries

Runs == 1..NumRuns

(* ---------------- generic dict helpers ---------------- *)
EmptyDict == [k \in {} |-> 0]

\* d[k] = v  (insert or overwrite)
Put(d, k, v) == [x \in (DOMAIN d) \cup {k} |-> IF x = k THEN v ELSE d[x]]

\* d.get(k, default)
Get(d, k, default) == IF k \in DOMAIN d THEN d[k] ELSE default

(***************************************************************************)
(*                    PART 1: AgentOrchestrator                            *)
(***************************************************************************)
VARIABLES
    workflow_status,   \* self.workflow_status: request_id -> state dict
    clock,             \* time.time() / datetime.now(), in seconds
    pc,                \* per call: position inside execute_workflow
    stage,             \* per call: index 1..4 of the stage being run (0: none)
    rid,               \* per call: local request_id (after generation)
    ureq,              \* per call: user_request argument
    results,           \* per call: the stage envelopes returned so far
    errargs,           \* per call: arguments of the pending _handle_error call
    final,             \* per call: final_result / error_result local
    ret,               \* per call: value returned to the caller
    invoked,           \* per call: stages invoked so far (history)
    owner,             \* history: request_id -> the call that last created its entry
    disturbed          \* history: calls that shared their request_id with a call in flight

orchVars == <<workflow_status, clock, pc, stage, rid, ureq, results, errargs,
              final, ret, invoked, owner, disturbed>>

\* state of the MCP client (PART 2)
VARIABLES
    agent_name,        \* MCPClient.agent_name
    mcp_available,     \* MCP_AVAILABLE: the mcp package could be imported
    env,               \* os.getenv: environment key -> value ("" when unset)
    active_sessions,   \* MCPClient.active_sessions: server name -> "mock" | "real"
    init_results,      \* value returned by the last initialize_servers
    phase,             \* "new" | "initializing" | "initialized" | "cleaned"
    init_pos,          \* initialize_servers: index of the server initialised next (0: not running)
    call,              \* the call_tool just made: server, tool, arguments, session, result
    first_mock         \* history: an earlier call_tool served by a mock session

mcpVars == <<agent_name, mcp_available, env, active_sessions, init_results, phase,
             init_pos, call, first_mock>>

\* state of the status queries made by other request threads (PART 3)
VARIABLES
    query,             \* the get_workflow_status call just made: id and value returned
    all_query          \* the GET /workflow/status request in progress: the map returned
                       \* by get_all_statuses, the store at that moment, the response

qryVars == <<query, all_query>>

\* state of the processing agent's caller (PART 4)
VARIABLES
    proc               \* the ProcessorAgent.process_data call just made: its
                       \* arguments and how it ended

procVars == <<proc>>

\* state of the callers of the other components (PARTS 5 to 8)
VARIABLES
    coll,              \* the CollectorAgent.collect_information call in progress
    chat,              \* the NewsScrapingChatApp.process_user_request call in progress
    dist,              \* the ReporterAgent.generate_report call in progress
    http               \* the POST /workflow/execute request in progress

collVars == <<coll>>
chatVars == <<chat>>
distVars == <<dist>>
httpVars == <<http>>
extVars == <<collVars, chatVars, distVars, httpVars>>
baseVars == <<orchVars, mcpVars, qryVars, procVars>>

\* variant: the action stage run before the processing stage
StepNames_Mutant == <<"collection", "action", "processing", "reporting">>

\* the stages in the order execute_workflow runs them (lines 59-98)
StepNames == <<"collection", "processing", "action", "reporting">>

\* variant: the checkpoints of processing and action swapped
Checkpoint_Mutant == <<25, 75, 50, 90>>

\* the progress arguments of lines 59, 68, 77, 86
Checkpoint == <<25, 50, 75, 90>>

NoValue == [none |-> TRUE]

\* request_id values a caller can pass: omitted (None), an empty string,
\* a proper string, and a JSON list (truthy, unhashable).
RequestIdInputs == {"<None>", "", "req1", "<list>"}
UserRequests == {"topic"}

\* `not request_id`
Falsy(x) == x \in {"<None>", ""}

\* hash(request_id) raises TypeError
Unhashable(x) == x = "<list>"

\* f"req_{int(time.time())}"
GenerateId(t) == "req_" \o ToString(t)

\* datetime.now().isoformat(): an opaque string; no decision in the code
\* depends on its value
Timestamp == "<iso>"

\* the dict literal of lines 49-55
NewState ==
    [status |-> "running", start_time |-> Timestamp, current_step |-> "initialization",
     progress |-> 0, steps |-> <<>>]

\* What a stage executor may hand back for stage k of call r: an envelope
\* with status success or error, or a dict without a 'status' key.
StageEnvelopes(r, k) ==
    { [status |-> s, message |-> "m", stage |-> StepNames[k], call |-> r] : s \in {"success", "error"} }
      \cup { [message |-> "m", stage |-> StepNames[k], call |-> r] }

\* Exception texts: a stage raising, and result['status'] raising KeyError
StageExcText == "stage raised"
KeyErrorText == "'status'"

InFlight(r) == pc[r] \notin {"idle", "returned", "raised"}

\* variant: only the status 'failed' halts the pipeline
NotSuccess_Mutant(res) == res.status = "failed"

(* ---- the test `<stage>_result['status'] != 'success'` (lines 64, 73, 82, 100) ---- *)
NotSuccess(res) == res.status # "success"

\* variant: the progress assignment of line 140 is missing
UpdateStatus_Mutant(ws, id, step, progress) ==
    IF id \in DOMAIN ws
    THEN Put(ws, id, Put(ws[id], "current_step", step))
    ELSE ws

\* variant: the current_step assignment of line 139 is missing
UpdateStatus_StepMutant(ws, id, step, progress) ==
    IF id \in DOMAIN ws
    THEN Put(ws, id, Put(ws[id], "progress", progress))
    ELSE ws

(* ---- _update_status (lines 136-140) ---- *)
UpdateStatus(ws, id, step, progress) ==
    IF id \in DOMAIN ws
    THEN Put(ws, id, Put(Put(ws[id], "current_step", step), "progress", progress))
    ELSE ws

\* variant: one steps list shared by all entries
LogStep_Mutant(ws, id, step_name, result) ==
    [x \in DOMAIN ws |->
        Put(ws[x], "steps",
            Append(ws[x].steps,
                   [step |-> step_name,
                    status |-> Get(result, "status", "unknown"),
                    timestamp |-> Timestamp,
                    message |-> Get(result, "message", "")]))]

(* ---- _log_step (lines 142-150) ---- *)
LogStep(ws, id, step_name, result) ==
    IF id \in DOMAIN ws
    THEN Put(ws, id, Put(ws[id], "steps",
             Append(ws[id].steps,
                    [step |-> step_name,
                     status |-> Get(result, "status", "unknown"),
                     timestamp |-> Timestamp,
                     message |-> Get(result, "message", "")])))
    ELSE ws

(* ---- get_workflow_status (lines 179-181) ---- *)
GetWorkflowStatus(id) == Get(workflow_status, id, [status |-> "not_found"])

(* ---- execute_workflow, lines 42-55 ---- *)
Begin(r) ==
    /\ pc[r] = "idle"
    /\ \E u \in UserRequests, x \in RequestIdInputs :
         LET id == IF Falsy(x) THEN GenerateId(clock) ELSE x IN
         /\ ureq' = [ureq EXCEPT ![r] = u]
         /\ rid' = [rid EXCEPT ![r] = id]
         /\ IF Unhashable(id)
            THEN \* TypeError at line 49, outside the try block
                 /\ pc' = [pc EXCEPT ![r] = "raised"]
                 /\ UNCHANGED <<workflow_status, stage, owner, disturbed>>
            ELSE /\ workflow_status' = Put(workflow_status, id, NewState)
                 /\ pc' = [pc EXCEPT ![r] = "upd"]
                 /\ stage' = [stage EXCEPT ![r] = 1]
                 /\ owner' = Put(owner, id, r)
                 /\ disturbed' = LET same == {q \in Runs \ {r} : InFlight(q) /\ rid[q] = id}
                                  IN IF same = {} THEN disturbed ELSE disturbed \cup same \cup {r}
    /\ UNCHANGED <<clock, results, errargs, final, ret, invoked>>
    /\ UNCHANGED <<mcpVars, qryVars, procVars, extVars>>

(* ---- self._update_status(request_id, <stage>, <checkpoint>) ---- *)
Checkpointing(r) ==
    /\ pc[r] = "upd"
    /\ workflow_status' = UpdateStatus(workflow_status, rid[r], StepNames[stage[r]], Checkpoint[stage[r]])
    /\ pc' = [pc EXCEPT ![r] = "call"]
    /\ UNCHANGED <<clock, stage, rid, ureq, results, errargs, final, ret, invoked, owner, disturbed>>
    /\ UNCHANGED <<mcpVars, qryVars, procVars, extVars>>

(* ---- the stage executor is invoked and returns or raises ---- *)
StageCall(r) ==
    /\ pc[r] = "call"
    /\ invoked' = [invoked EXCEPT ![r] = Append(@, StepNames[stage[r]])]
    /\ \/ \E e \in StageEnvelopes(r, stage[r]) :
            /\ results' = [results EXCEPT ![r] = Put(@, StepNames[stage[r]], e)]
            /\ pc' = [pc EXCEPT ![r] = "log"]
            /\ UNCHANGED errargs
       \/ \* the stage raises: except clause of line 133
          /\ errargs' = [errargs EXCEPT ![r] =
                 [message |-> [kind |-> "workflow exception", text |-> StageExcText],
                  error_data |-> NoValue]]
          /\ pc' = [pc EXCEPT ![r] = "err_status"]
          /\ UNCHANGED results
    /\ UNCHANGED <<workflow_status, clock, stage, rid, ureq, final, ret, owner, disturbed>>
    /\ UNCHANGED <<mcpVars, qryVars, procVars, extVars>>

(* ---- self._log_step(...) and the test `result['status'] != 'success'` ---- *)
LogAndCheck(r) ==
    /\ pc[r] = "log"
    /\ LET k == stage[r]
           res == results[r][StepNames[k]] IN
       /\ workflow_status' = LogStep(workflow_status, rid[r], StepNames[k], res)
       /\ IF "status" \notin DOMAIN res
          THEN \* KeyError, caught at line 133
               /\ errargs' = [errargs EXCEPT ![r] =
                      [message |-> [kind |-> "workflow exception", text |-> KeyErrorText],
                       error_data |-> NoValue]]
               /\ pc' = [pc EXCEPT ![r] = "err_status"]
               /\ UNCHANGED stage
          ELSE IF NotSuccess(res)
          THEN /\ errargs' = [errargs EXCEPT ![r] =
                      [message |-> [kind |-> "stage failed", text |-> StepNames[k]],
                       error_data |-> res]]
               /\ pc' = [pc EXCEPT ![r] = "err_status"]
               /\ UNCHANGED stage
          ELSE IF k < 4
          THEN /\ pc' = [pc EXCEPT ![r] = "upd"]
               /\ stage' = [stage EXCEPT ![r] = k + 1]
               /\ UNCHANGED errargs
          ELSE /\ pc' = [pc EXCEPT ![r] = "fin_upd"]
               /\ UNCHANGED <<stage, errargs>>
    /\ UNCHANGED <<clock, rid, ureq, results, final, ret, invoked, owner, disturbed>>
    /\ UNCHANGED <<mcpVars, qryVars, procVars, extVars>>

\* variant: the 'report' slot filled with the action result
FinalResult_Mutant(r) ==
    [request_id |-> rid[r], status |-> "success", timestamp |-> Timestamp,
     workflow_summary |-> [total_steps |-> 4, completed_steps |-> 4, user_request |-> ureq[r]],
     results |-> [collection |-> results[r]["collection"],
                  processing |-> results[r]["processing"],
                  action |-> results[r]["action"],
                  report |-> results[r]["action"]]]

(* ---- lines 104-125: _update_status('completed', 100), build final_result ---- *)
FinalResult(r) ==
    [request_id |-> rid[r], status |-> "success", timestamp |-> Timestamp,
     workflow_summary |-> [total_steps |-> 4, completed_steps |-> 4, user_request |-> ureq[r]],
     results |-> [collection |-> results[r]["collection"],
                  processing |-> results[r]["processing"],
                  action |-> results[r]["action"],
                  report |-> results[r]["reporting"]]]

Complete(r) ==
    /\ pc[r] = "fin_upd"
    /\ workflow_status' = UpdateStatus(workflow_status, rid[r], "completed", 100)
    /\ final' = [final EXCEPT ![r] = FinalResult(r)]
    /\ pc' = [pc EXCEPT ![r] = "fin_status"]
    /\ UNCHANGED <<clock, stage, rid, ureq, results, errargs, ret, invoked, owner, disturbed>>
    /\ UNCHANGED <<mcpVars, qryVars, procVars, extVars>>

(* ---- line 127 ---- *)
SetCompleted(r) ==
    /\ pc[r] = "fin_status"
    /\ workflow_status' = Put(workflow_status, rid[r], Put(workflow_status[rid[r]], "status", "completed"))
    /\ pc' = [pc EXCEPT ![r] = "fin_end"]
    /\ UNCHANGED <<clock, stage, rid, ureq, results, errargs, final, ret, invoked, owner, disturbed>>
    /\ UNCHANGED <<mcpVars, qryVars, procVars, extVars>>

(* ---- line 128 ---- *)
SetEndTime(r) ==
    /\ pc[r] = "fin_end"
    /\ workflow_status' = Put(workflow_status, rid[r], Put(workflow_status[rid[r]], "end_time", Timestamp))
    /\ pc' = [pc EXCEPT ![r] = "fin_result"]
    /\ UNCHANGED <<clock, stage, rid, ureq, results, errargs, final, ret, invoked, owner, disturbed>>
    /\ UNCHANGED <<mcpVars, qryVars, procVars, extVars>>

(* ---- lines 129-131 ---- *)
SetResult(r) ==
    /\ pc[r] = "fin_result"
    /\ workflow_status' = Put(workflow_status, rid[r], Put(workflow_status[rid[r]], "result", final[r]))
    /\ ret' = [ret EXCEPT ![r] = final[r]]
    /\ pc' = [pc EXCEPT ![r] = "returned"]
    /\ UNCHANGED <<clock, stage, rid, ureq, results, errargs, final, invoked, owner, disturbed>>
    /\ UNCHANGED <<mcpVars, qryVars, procVars, extVars>>

(* ---- _handle_error, lines 154-165 ---- *)
ErrorResult(r) ==
    [request_id |-> rid[r], status |-> "error", message |-> errargs[r].message,
     timestamp |-> Timestamp, error_data |-> errargs[r].error_data]

\* variant: the error result is built but the stored status is left as it is
HandleError_Mutant(r) ==
    /\ pc[r] = "err_status"
    /\ final' = [final EXCEPT ![r] = ErrorResult(r)]
    /\ pc' = [pc EXCEPT ![r] = "err_end"]
    /\ UNCHANGED <<workflow_status, ret>>
    /\ UNCHANGED <<clock, stage, rid, ureq, results, errargs, invoked, owner, disturbed>>
    /\ UNCHANGED <<mcpVars, qryVars, procVars, extVars>>

HandleError(r) ==
    /\ pc[r] = "err_status"
    /\ final' = [final EXCEPT ![r] = ErrorResult(r)]
    /\ IF rid[r] \in DOMAIN workflow_status
       THEN /\ workflow_status' = Put(workflow_status, rid[r], Put(workflow_status[rid[r]], "status", "error"))
            /\ pc' = [pc EXCEPT ![r] = "err_end"]
            /\ UNCHANGED ret
       ELSE /\ ret' = [ret EXCEPT ![r] = ErrorResult(r)]
            /\ pc' = [pc EXCEPT ![r] = "returned"]
            /\ UNCHANGED workflow_status
    /\ UNCHANGED <<clock, stage, rid, ureq, results, errargs, invoked, owner, disturbed>>
    /\ UNCHANGED <<mcpVars, qryVars, procVars, extVars>>

(* ---- line 166 ---- *)
SetErrorEndTime(r) ==
    /\ pc[r] = "err_end"
    /\ workflow_status' = Put(workflow_status, rid[r], Put(workflow_status[rid[r]], "end_time", Timestamp))
    /\ pc' = [pc EXCEPT ![r] = "err_error"]
    /\ UNCHANGED <<clock, stage, rid, ureq, results, errargs, final, ret, invoked, owner, disturbed>>
    /\ UNCHANGED <<mcpVars, qryVars, procVars, extVars>>

(* ---- lines 167-169 ---- *)
SetError(r) ==
    /\ pc[r] = "err_error"
    /\ workflow_status' = Put(workflow_status, rid[r], Put(workflow_status[rid[r]], "error", final[r]))
    /\ ret' = [ret EXCEPT ![r] = final[r]]
    /\ pc' = [pc EXCEPT ![r] = "returned"]
    /\ UNCHANGED <<clock, stage, rid, ureq, results, errargs, final, invoked, owner, disturbed>>
    /\ UNCHANGED <<mcpVars, qryVars, procVars, extVars>>

(* ---- the wall clock advances ---- *)
Tick ==
    /\ clock < MaxClock
    /\ clock' = clock + 1
    /\ UNCHANGED <<workflow_status, pc, stage, rid, ureq, results, errargs, final, ret, invoked, owner, disturbed>>
    /\ UNCHANGED <<mcpVars, qryVars, procVars, extVars>>

(* ---- the stage executors shipped in the repository ---- *)
\* the operation execute_workflow calls on the executor of stage k, with the
\* number of arguments it passes (lines 61, 70, 79, 97)
CalledOperation(k) ==
    <<[name |-> "collect_information", args |-> 1],
      [name |-> "process_data", args |-> 1],
      [name |-> "execute_actions", args |-> 2],
      [name |-> "generate_report", args |-> 2]>>[k]

\* the operation the executor class of stage k defines, with the number of
\* parameters it requires (collector_agent.py, processor_agent.py 85,
\* action_agent.py 72, reporter_agent.py 88)
ProvidedOperation(k) ==
    <<[name |-> "collect_information", args |-> 1],
      [name |-> "process_data", args |-> 1],
      [name |-> "execute_action", args |-> 2],
      [name |-> "generate_report", args |-> 4]>>[k]

\* The stage call against the shipped executors: a call of an operation the
\* executor does not define (AttributeError) or with the wrong number of
\* arguments (TypeError) raises before the stage does anything.
ShippedStageCall(r) ==
    /\ StageCall(r)
    /\ (CalledOperation(stage[r]) # ProvidedOperation(stage[r])) => pc'[r] = "err_status"

OrchInit ==
    /\ workflow_status = EmptyDict
    /\ clock = 0
    /\ pc = [r \in Runs |-> "idle"]
    /\ stage = [r \in Runs |-> 0]
    /\ rid = [r \in Runs |-> "<None>"]
    /\ ureq = [r \in Runs |-> "topic"]
    /\ results = [r \in Runs |-> EmptyDict]
    /\ errargs = [r \in Runs |-> NoValue]
    /\ final = [r \in Runs |-> NoValue]
    /\ ret = [r \in Runs |-> NoValue]
    /\ invoked = [r \in Runs |-> <<>>]
    /\ owner = EmptyDict
    /\ disturbed = {}

OrchNext ==
    \/ \E r \in Runs : Begin(r)
    \/ \E r \in Runs : Checkpointing(r)
    \/ \E r \in Runs : StageCall(r)
    \/ \E r \in Runs : LogAndCheck(r)
    \/ \E r \in Runs : Complete(r)
    \/ \E r \in Runs : SetCompleted(r)
    \/ \E r \in Runs : SetEndTime(r)
    \/ \E r \in Runs : SetResult(r)
    \/ \E r \in Runs : HandleError(r)
    \/ \E r \in Runs : SetErrorEndTime(r)
    \/ \E r \in Runs : SetError(r)
    \/ Tick

(***************************************************************************)
(*             PART 2: MCPManager, MCPClient, MockMCPSession               *)
(***************************************************************************)
(* ---- MCPManager._initialize_servers (mcp_config.py 28-108) ---- *)
RegisteredServers ==
    {"firecrawl", "web_search", "filesystem", "sqlite", "gmail", "slack",
     "chart", "markdown", "notion"}

\* the keys of each server's env dict (none: env is None)
ServerEnvKeys(s) ==
    CASE s = "firecrawl" -> {"FIRECRAWL_API_KEY"}
      [] s = "web_search" -> {"SEARCH_API_KEY"}
      [] s = "gmail" -> {"GMAIL_CLIENT_ID", "GMAIL_CLIENT_SECRET"}
      [] s = "slack" -> {"SLACK_BOT_TOKEN"}
      [] s = "notion" -> {"NOTION_API_KEY"}
      [] OTHER -> {}

EnvKeys == UNION {ServerEnvKeys(s) : s \in RegisteredServers}

\* The environments considered: nothing set, everything set but one of the
\* two Gmail values, and everything set.
EnvChoices ==
    { [k \in EnvKeys |-> ""],
      [k \in EnvKeys |-> IF k = "GMAIL_CLIENT_SECRET" THEN "" ELSE "value"],
      [k \in EnvKeys |-> "value"] }

\* variant: one configured value is enough
IsServerAvailable_Mutant(s) ==
    IF s \notin RegisteredServers THEN FALSE
    ELSE ServerEnvKeys(s) = {} \/ \E k \in ServerEnvKeys(s) : env[k] # ""

(* ---- MCPManager.is_server_available (mcp_config.py 126-139) ---- *)
IsServerAvailable(s) ==
    IF s \notin RegisteredServers THEN FALSE
    ELSE \A k \in ServerEnvKeys(s) : env[k] # ""

(* ---- MCPManager.validate_server_requirements (mcp_config.py 141-159) ---- *)
\* the issues, one per environment key whose value is empty
ValidateServerRequirements(s) ==
    IF s \notin RegisteredServers THEN [valid |-> FALSE, error |-> "Server not found"]
    ELSE LET issues == {<<"Missing environment variable:", k>> :
                           k \in {x \in ServerEnvKeys(s) : env[x] = ""}}
         IN [valid |-> Cardinality(issues) = 0, issues |-> issues, server |-> s]

(* ---- str.lower() on the agent names considered ---- *)
Lower(a) == IF a = "COLLECTOR" THEN "collector" ELSE a

AgentNames == {"collector", "processor", "action", "reporter", "COLLECTOR", "planner"}

(* ---- MCPManager.get_servers_for_agent (mcp_config.py 110-120) ---- *)
AgentServerMapping(a) ==
    CASE a = "collector" -> <<"firecrawl", "web_search", "filesystem">>
      [] a = "processor" -> <<"filesystem", "sqlite", "chart">>
      [] a = "action" -> <<"filesystem", "sqlite">>
      [] a = "reporter" -> <<"gmail", "slack", "chart", "markdown", "notion", "filesystem">>
      [] OTHER -> <<>>

GetServersForAgent(a) ==
    SelectSeq(AgentServerMapping(Lower(a)), LAMBDA s : s \in RegisteredServers)

Range(q) == {q[i] : i \in 1..Len(q)}

\* variant: the client takes every registered server, whatever the agent
AvailableServers_Mutant ==
    <<"gmail", "slack", "firecrawl", "web_search", "filesystem", "sqlite",
      "chart", "markdown", "notion">>

\* MCPClient.available_servers (mcp_client.py 35), as server names
AvailableServers == GetServersForAgent(agent_name)

(* ---- MockMCPSession._get_mock_tools (mcp_client.py 159-211) ---- *)
MockTools(s) ==
    CASE s = "firecrawl" -> {"scrape_url", "crawl_site"}
      [] s = "web_search" -> {"search"}
      [] s = "filesystem" -> {"read_file", "write_file", "list_directory"}
      [] s = "gmail" -> {"send_email"}
      [] s = "slack" -> {"send_message"}
      [] s = "chart" -> {"create_chart"}
      [] OTHER -> {}

\* A value standing for an exception leaving a call
Raised(text) == [exc |-> text]
IsRaised(x) == "exc" \in DOMAIN x

\* arguments values: a mapping with the keys the callers pass, an empty
\* mapping, and None (not a mapping)
FullArgs == [url |-> "u", query |-> "q", to |-> "t", channel |-> "c"]
ArgumentValues == {FullArgs, EmptyDict, NoValue}
IsMapping(a) == a # NoValue

\* variant: the search template without its 'results' list
MockResponses_Mutant(arguments) ==
    [scrape_url |-> [success |-> TRUE,
                     content |-> <<"Mock scraped content from", Get(arguments, "url", "unknown URL")>>,
                     title |-> "Mock Page Title",
                     metadata |-> [word_count |-> 150]],
     search |-> [success |-> TRUE],
     send_email |-> [success |-> TRUE,
                     message |-> <<"Mock email sent to", Get(arguments, "to", "unknown recipient")>>],
     send_message |-> [success |-> TRUE,
                       message |-> <<"Mock Slack message sent to", Get(arguments, "channel", "unknown channel")>>],
     create_chart |-> [success |-> TRUE, chart_url |-> "mock-chart-url.png",
                       message |-> "Mock chart created successfully"]]

(* ---- the mock_responses dict (mcp_client.py 233-263) ---- *)
MockResponses(arguments) ==
    [scrape_url |-> [success |-> TRUE,
                     content |-> <<"Mock scraped content from", Get(arguments, "url", "unknown URL")>>,
                     title |-> "Mock Page Title",
                     metadata |-> [word_count |-> 150]],
     search |-> [success |-> TRUE,
                 results |-> << [title |-> <<"Mock search result for:", Get(arguments, "query", "unknown query")>>,
                                 url |-> "https://example.com/mock-result",
                                 snippet |-> "Mock search result snippet..."] >>],
     send_email |-> [success |-> TRUE,
                     message |-> <<"Mock email sent to", Get(arguments, "to", "unknown recipient")>>],
     send_message |-> [success |-> TRUE,
                       message |-> <<"Mock Slack message sent to", Get(arguments, "channel", "unknown channel")>>],
     create_chart |-> [success |-> TRUE, chart_url |-> "mock-chart-url.png",
                       message |-> "Mock chart created successfully"]]

\* variant: the response carries a count taken from the client's state
MockCallTool_Mutant(s, tool_name, arguments) ==
    IF tool_name \notin MockTools(s)
    THEN [success |-> FALSE, error |-> <<"Tool not found in", tool_name, s>>]
    ELSE IF ~IsMapping(arguments)
    THEN Raised("'NoneType' object has no attribute 'get'")
    ELSE Put(Get(MockResponses(arguments), tool_name,
                 [success |-> TRUE, message |-> <<"Mock response for", tool_name, arguments>>]),
             "message", <<"Mock response", Cardinality(DOMAIN active_sessions)>>)

(* ---- MockMCPSession.call_tool (mcp_client.py 224-271) ---- *)
MockCallTool(s, tool_name, arguments) ==
    IF tool_name \notin MockTools(s)
    THEN [success |-> FALSE, error |-> <<"Tool not found in", tool_name, s>>]
    ELSE IF ~IsMapping(arguments)
    THEN Raised("'NoneType' object has no attribute 'get'")
    ELSE Get(MockResponses(arguments), tool_name,
             [success |-> TRUE, message |-> <<"Mock response for", tool_name, arguments>>])

\* What a real session's call_tool may do: return a value or raise
RealCallOutcomes == {[value |-> "backend result"], Raised("backend failure")}

\* variant: no try/except around the session call
CatchException_Mutant(x) == x

(* ---- the try/except of MCPClient.call_tool (mcp_client.py 109, 119-123) ---- *)
CatchException(x) ==
    IF IsRaised(x) THEN [success |-> FALSE, error |-> x.exc] ELSE x

(* ---- MCPClient.call_tool (mcp_client.py 99-123) ---- *)
CallTool(sessions, server_name, tool_name, arguments, real) ==
    IF server_name \notin DOMAIN sessions
    THEN [success |-> FALSE, error |-> <<"Server not initialized", server_name>>]
    ELSE CatchException(
           IF sessions[server_name] = "mock"
           THEN MockCallTool(server_name, tool_name, arguments)
           ELSE IF IsRaised(real) THEN real
                ELSE [success |-> TRUE, result |-> real.value])

\* What the session's call_tool handed to MCPClient.call_tool (lines 111,
\* 114): a value or an exception; NoValue when no session was reached.
SessionOutcome(sessions, server_name, tool_name, arguments, real) ==
    IF server_name \notin DOMAIN sessions THEN NoValue
    ELSE IF sessions[server_name] = "mock"
         THEN MockCallTool(server_name, tool_name, arguments)
         ELSE real

\* variant: a session call that raised is tried again on a mock session
SessionInvocations_Mutant(sessions, server_name, outcome) ==
    IF server_name \notin DOMAIN sessions THEN <<>>
    ELSE IF IsRaised(outcome) THEN <<sessions[server_name], "mock">>
    ELSE <<sessions[server_name]>>

\* The sessions whose call_tool one MCPClient.call_tool awaits, in order:
\* none after the return of line 102, else the one await of line 111 or of
\* line 114, whatever its outcome (the except clause only builds a dict).
SessionInvocations(sessions, server_name, outcome) ==
    IF server_name \notin DOMAIN sessions THEN <<>>
    ELSE <<sessions[server_name]>>

(* ---- MCPClient._initialize_server (mcp_client.py 55-80) ---- *)
\* how: "created" (_create_session gave a session), "none" (_create_session
\* gave None: stdio_client or session.initialize failed, lines 89-91),
\* "raised" (building the server parameters raised).
InitOutcomes == {"created", "none", "raised"}

InitializeServer(sessions, s, how) ==
    IF ~mcp_available THEN [sessions |-> Put(sessions, s, "mock"), success |-> TRUE]
    ELSE IF how = "created" THEN [sessions |-> Put(sessions, s, "real"), success |-> TRUE]
    ELSE IF how = "raised" THEN [sessions |-> Put(sessions, s, "mock"), success |-> TRUE]
    ELSE [sessions |-> sessions, success |-> FALSE]

(* ---- MCPClient.initialize_servers (mcp_client.py 37-53) ---- *)
\* initialization_results = {} and the loop is entered; with no server to
\* initialise the call returns at once.
StartInitialize ==
    /\ init_pos = 0
    /\ call = NoValue
    /\ phase \in {"new", "cleaned"}
    /\ init_results' = EmptyDict
    /\ IF AvailableServers = <<>>
       THEN phase' = "initialized" /\ init_pos' = 0
       ELSE phase' = "initializing" /\ init_pos' = 1
    /\ UNCHANGED <<agent_name, mcp_available, env, active_sessions, call>>
    /\ UNCHANGED <<orchVars, qryVars, procVars, extVars, first_mock>>

\* one iteration of the loop: `await self._initialize_server(server_config)`
InitializeNext ==
    /\ init_pos > 0
    /\ \E how \in InitOutcomes :
          LET s == AvailableServers[init_pos]
              one == InitializeServer(active_sessions, s, how)
          IN /\ active_sessions' = one.sessions
             /\ init_results' = Put(init_results, s, one.success)
    /\ IF init_pos = Len(AvailableServers)
       THEN phase' = "initialized" /\ init_pos' = 0
       ELSE phase' = phase /\ init_pos' = init_pos + 1
    /\ UNCHANGED <<agent_name, mcp_available, env, call>>
    /\ UNCHANGED <<orchVars, qryVars, procVars, extVars, first_mock>>

\* servers a caller may name, and for each the tools it may ask for: the
\* tools the mock declares, the tools the stage executors ask for, and a
\* tool no server has
ServerNames == RegisteredServers \cup {"unregistered"}

\* the (server, tool) pairs the stage executors ask for
\* (collector_agent.py 154, 169; processor_agent.py 256, 279, 296;
\*  reporter_agent.py 199, 221, 240, 268, 295)
StageCalls(a) ==
    CASE a = "collector" -> {<<"web_search", "search">>, <<"firecrawl", "scrape_url">>}
      [] a = "processor" -> {<<"chart", "create_chart">>, <<"sqlite", "execute">>}
      [] a = "reporter" -> {<<"gmail", "send_email">>, <<"slack", "send_message">>,
                            <<"notion", "create_page">>, <<"chart", "create_chart">>,
                            <<"markdown", "create_document">>}
      [] OTHER -> {}

StageTools(s) ==
    {p[2] : p \in {q \in UNION {StageCalls(a) : a \in AgentNames} : q[1] = s}}

ToolNames(s) == MockTools(s) \cup StageTools(s) \cup {"no_such_tool"}

\* await client.call_tool(server, tool, arguments): the call and its result
CallToolStep ==
    /\ init_pos = 0
    /\ call = NoValue
    /\ \E s \in ServerNames, a \in ArgumentValues :
         \E t \in ToolNames(s) :
           \E real \in IF Get(active_sessions, s, "none") = "real"
                       THEN RealCallOutcomes ELSE {NoValue} :
              call' = [server |-> s, tool |-> t, arguments |-> a,
                       session |-> Get(active_sessions, s, "none"),
                       outcome |-> SessionOutcome(active_sessions, s, t, a, real),
                       invocations |-> SessionInvocations(active_sessions, s,
                                          SessionOutcome(active_sessions, s, t, a, real)),
                       result |-> CallTool(active_sessions, s, t, a, real)]
    /\ UNCHANGED <<agent_name, mcp_available, env, active_sessions, init_results, phase, init_pos>>
    /\ UNCHANGED <<orchVars, qryVars, procVars, extVars, first_mock>>

\* the caller has taken the result of a mock call and keeps it (history, to
\* compare later calls with it)
RememberMockCall ==
    /\ first_mock = NoValue
    /\ call # NoValue
    /\ call.session = "mock"
    /\ first_mock' = [server |-> call.server, tool |-> call.tool,
                      arguments |-> call.arguments, result |-> call.result]
    /\ call' = NoValue
    /\ UNCHANGED <<agent_name, mcp_available, env, active_sessions, init_results, phase,
                   init_pos>>
    /\ UNCHANGED <<orchVars, qryVars, procVars, extVars>>

\* the caller has taken the result
CallDone ==
    /\ call # NoValue
    /\ call' = NoValue
    /\ UNCHANGED <<agent_name, mcp_available, env, active_sessions, init_results, phase, init_pos>>
    /\ UNCHANGED <<orchVars, qryVars, procVars, extVars, first_mock>>

(* ---- MCPClient.cleanup (mcp_client.py 142-150) ---- *)
Cleanup ==
    /\ init_pos = 0
    /\ call = NoValue
    /\ phase # "cleaned"
    /\ active_sessions' = EmptyDict
    /\ phase' = "cleaned"
    /\ UNCHANGED <<agent_name, mcp_available, env, init_results, call, init_pos>>
    /\ UNCHANGED <<orchVars, qryVars, procVars, extVars, first_mock>>

\* the client before MCPClient(agent_name) is used
MCPInit ==
    /\ agent_name \in AgentNames
    /\ mcp_available \in BOOLEAN
    /\ env \in EnvChoices
    /\ active_sessions = EmptyDict
    /\ init_results = EmptyDict
    /\ phase = "new"
    /\ init_pos = 0
    /\ call = NoValue
    /\ first_mock = NoValue

MCPNext ==
    \/ StartInitialize
    \/ InitializeNext
    \/ CallToolStep
    \/ CallDone
    \/ Cleanup

\* the client left alone while the orchestrator is examined
MCPIdle ==
    /\ agent_name = "collector"
    /\ mcp_available = FALSE
    /\ env = [k \in EnvKeys |-> ""]
    /\ active_sessions = EmptyDict
    /\ init_results = EmptyDict
    /\ phase = "new"
    /\ init_pos = 0
    /\ call = NoValue
    /\ first_mock = NoValue

(***************************************************************************)
(*                 PART 3: status queries on the store                     *)
(***************************************************************************)
\* request_ids a status query may name
QueryIds == {"req1", "req_0", "unknown"}

\* variant: the lookup inserts the default (dict.setdefault)
StoreAfterGet_Mutant(ws, id) ==
    IF id \in DOMAIN ws THEN ws ELSE Put(ws, id, [status |-> "not_found"])

\* the store after self.workflow_status.get(request_id, {...}) (line 181)
StoreAfterGet(ws, id) == ws

(* ---- get_workflow_status (lines 179-181), called by another thread ---- *)
StatusQuery ==
    /\ query = NoValue
    /\ \E id \in QueryIds :
          /\ query' = [id |-> id, result |-> GetWorkflowStatus(id)]
          /\ workflow_status' = StoreAfterGet(workflow_status, id)
    /\ UNCHANGED <<clock, pc, stage, rid, ureq, results, errargs, final, ret, invoked, owner, disturbed>>
    /\ UNCHANGED <<mcpVars, procVars, extVars, all_query>>

\* the caller has taken the value
StatusQueryDone ==
    /\ query # NoValue
    /\ query' = NoValue
    /\ UNCHANGED <<orchVars, mcpVars, procVars, extVars, all_query>>

\* A map handed to a caller: the store object itself (alias) or a copy of
\* its content.
TheStore == [alias |-> TRUE]
CopyOf(ws) == [alias |-> FALSE, content |-> ws]
MapContent(m) == IF m.alias THEN workflow_status ELSE m.content

(* ---- get_all_statuses (lines 183-185): `return self.workflow_status` ---- *)
GetAllStatuses == TheStore

\* What jsonify(statuses) of line 247 can give when it walks the map handed
\* to it: the content it finds, or, when the map is the store and a request
\* thread has inserted an entry since the walk began (no lock protects the
\* store), RuntimeError "dictionary changed size during iteration", which
\* the except clause of line 249 turns into the 500 response.
Jsonify(m, keys_at_start) ==
    {[status_code |-> 200, body |-> MapContent(m)]}
      \cup IF m.alias /\ DOMAIN workflow_status # keys_at_start
           THEN {[status_code |-> 500, body |-> [status |-> "error"]]}
           ELSE {}

(* ---- GET /workflow/status (lines 242-253): the call of line 246 ---- *)
AllStatusesCall ==
    /\ all_query = NoValue
    /\ all_query' = [returned |-> GetAllStatuses, at_call |-> workflow_status,
                     walk_keys |-> NoValue, response |-> NoValue]
    /\ UNCHANGED <<orchVars, mcpVars, procVars, extVars, query>>

(* ---- line 247: jsonify starts to walk the map ---- *)
AllStatusesWalk ==
    /\ all_query # NoValue
    /\ all_query.walk_keys = NoValue
    /\ all_query' = [all_query EXCEPT !.walk_keys = [keys |-> DOMAIN MapContent(all_query.returned)]]
    /\ UNCHANGED <<orchVars, mcpVars, procVars, extVars, query>>

(* ---- line 247: the walk ends, the response is built ---- *)
AllStatusesRespond ==
    /\ all_query # NoValue
    /\ all_query.walk_keys # NoValue
    /\ all_query.response = NoValue
    /\ \E resp \in Jsonify(all_query.returned, all_query.walk_keys.keys) :
          all_query' = [all_query EXCEPT !.response = resp]
    /\ UNCHANGED <<orchVars, mcpVars, procVars, extVars, query>>

\* the response has been sent
AllStatusesDone ==
    /\ all_query # NoValue
    /\ all_query.response # NoValue
    /\ all_query' = NoValue
    /\ UNCHANGED <<orchVars, mcpVars, procVars, extVars, query>>

QueryInit ==
    /\ query = NoValue
    /\ all_query = NoValue

QueryNext ==
    \/ StatusQuery
    \/ StatusQueryDone
    \/ AllStatusesCall
    \/ AllStatusesWalk
    \/ AllStatusesRespond
    \/ AllStatusesDone

(***************************************************************************)
(*                 PART 4: ProcessorAgent.process_data                     *)
(***************************************************************************)

\* most sites in one collection
MaxSites == 3

\* The page texts considered. Each is shorter than 200 characters, so the
\* summary of a page is its whole text (processor_agent.py 176).
Contents == {"artificial intelligence", "technology news", "business company", ""}

\* the requests considered
ProcessorRequests == {"artificial intelligence"}

(* ---- ProcessorAgent._extract_keywords (processor_agent.py 384-400) ---- *)
\* lower-cased words longer than two letters that are not stop words
ExtractKeywords(text) ==
    CASE text = "artificial intelligence" -> <<"artificial", "intelligence">>
      [] text = "technology news" -> <<"technology", "news">>
      [] text = "business company" -> <<"business", "company">>
      [] OTHER -> <<>>

\* the category of lines 152-160
CategoryOf(content) ==
    CASE content = "artificial intelligence" -> "AI/ML"
      [] content = "technology news" -> "Technology"
      [] content = "business company" -> "Business"
      [] OTHER -> "General"

(* ---- WebScraper result records (web_scraper.py 75-88) ---- *)
SiteChoices ==
    {[status |-> "success", url |-> c, content |-> c] : c \in Contents}
        \cup {[status |-> "error", url |-> "down", error |-> "timeout"]}

RawDataChoices == UNION {[1..n -> SiteChoices] : n \in 0..MaxSites}

\* the number of records of q with the given status
CountStatus(q, status) == Len(SelectSeq(q, LAMBDA d : d.status = status))

(* ---- CollectorAgent._structure_collected_data (collector_agent.py 217-243) ---- *)
\* sites_data, which process_data does not read, is left out
StructureCollectedData(scraped_data, user_request) ==
    [user_request |-> user_request,
     collection_summary |->
        [total_sites |-> Len(scraped_data),
         successful_scrapes |-> CountStatus(scraped_data, "success"),
         failed_scrapes |-> CountStatus(scraped_data, "error")]]

(* ---- CollectorAgent.collect_information (collector_agent.py 113-121) ---- *)
\* the envelope returned for the scraped records of one collection
CollectInformation(scraped_data, user_request) ==
    [status |-> "success",
     message |-> "sites collected",
     data |-> StructureCollectedData(scraped_data, user_request),
     raw_data |-> scraped_data]

\* The envelopes handed to process_data: the ones collect_information
\* returns, and one that reports a failed collection.
CollectedChoices ==
    {CollectInformation(raw, u) : raw \in RawDataChoices, u \in ProcessorRequests}
        \cup {[status |-> "error", message |-> "collection failed",
               data |-> [user_request |-> "artificial intelligence"], raw_data |-> <<>>]}

\* counts[i] = <<name, n>>: add one to the count of name, or append it with
\* count 1 (lines 153-160 for the categories, a dict in insertion order, and
\* lines 164-173 for the keywords)
CountOne(counts, name) ==
    IF \E i \in 1..Len(counts) : counts[i][1] = name
    THEN [i \in 1..Len(counts) |->
             IF counts[i][1] = name THEN <<name, counts[i][2] + 1>> ELSE counts[i]]
    ELSE Append(counts, <<name, 1>>)

RECURSIVE CountAll(_, _)
CountAll(counts, names) ==
    IF names = <<>> THEN counts
    ELSE CountAll(CountOne(counts, Head(names)), Tail(names))

\* list.sort(key=frequency, reverse=True), a stable sort (line 180)
RECURSIVE InsertByFrequency(_, _)
InsertByFrequency(sorted, e) ==
    IF sorted = <<>> THEN <<e>>
    ELSE IF Head(sorted)[2] >= e[2] THEN <<Head(sorted)>> \o InsertByFrequency(Tail(sorted), e)
    ELSE <<e>> \o sorted

RECURSIVE SortByFrequency(_)
SortByFrequency(counts) ==
    IF counts = <<>> THEN <<>>
    ELSE InsertByFrequency(SortByFrequency(SubSeq(counts, 1, Len(counts) - 1)),
                           counts[Len(counts)])

(* ---- ProcessorAgent._structure_data (processor_agent.py 134-182) ---- *)
RECURSIVE StructureSites(_, _)
StructureSites(sd, raw_data) ==
    IF raw_data = <<>> THEN sd
    ELSE LET data == Head(raw_data)
             content == IF "content" \in DOMAIN data THEN data.content ELSE ""
         IN IF data.status = "success"
            THEN StructureSites(
                    [sd EXCEPT !.successful_scrapes = @ + 1,
                               !.urls = Append(@, data.url),
                               !.categories = CountOne(@, CategoryOf(content)),
                               !.keywords = CountAll(@, ExtractKeywords(content)),
                               !.summaries = Append(@, content)],
                    Tail(raw_data))
            ELSE StructureSites(sd, Tail(raw_data))

StructureData(raw_data) ==
    LET sd == StructureSites([total_sites |-> Len(raw_data),
                              successful_scrapes |-> 0,
                              categories |-> <<>>,
                              keywords |-> <<>>,
                              summaries |-> <<>>,
                              urls |-> <<>>], raw_data)
    IN [sd EXCEPT !.keywords = SortByFrequency(@)]

\* max(categories, key=categories.get): the first name with the largest count
TopCategory(categories) ==
    LET best == CHOOSE i \in 1..Len(categories) :
                    /\ \A j \in 1..Len(categories) : categories[j][2] <= categories[i][2]
                    /\ \A j \in 1..(i - 1) : categories[j][2] < categories[i][2]
    IN categories[best][1]

\* the names of the first n entries
FirstNames(counts, n) ==
    [i \in 1..(IF Len(counts) < n THEN Len(counts) ELSE n) |-> counts[i][1]]

\* what a call ends with: a value returned, or an exception raised
Completed(v) == [raised |-> "none", value |-> v]
Failed(e) == [raised |-> e, value |-> NoValue]

(* ---- ProcessorAgent._generate_insights (processor_agent.py 184-205) ---- *)
\* success_rate = successful_scrapes / total_sites; the comparisons with 0.8
\* and 0.5 are made on the integers
GenerateInsights(sd) ==
    IF sd.total_sites = 0 THEN Failed("ZeroDivisionError")
    ELSE Completed(
        (IF 5 * sd.successful_scrapes > 4 * sd.total_sites THEN <<"high success rate">>
         ELSE IF 2 * sd.successful_scrapes < sd.total_sites THEN <<"low success rate">>
         ELSE <<>>)
        \o (IF sd.categories # <<>> THEN <<<<"top category", TopCategory(sd.categories)>>>>
            ELSE <<>>)
        \o (IF sd.keywords # <<>> THEN <<<<"top keywords", FirstNames(sd.keywords, 3)>>>>
            ELSE <<>>))

(* ---- ProcessorAgent._perform_mcp_analysis (processor_agent.py 237-323) ---- *)
\* Everything after the client test runs inside try/except, so the call
\* returns the entries written before a tool call raised; an entry is written
\* for a chart only when the tool reports success. The results are every
\* subset of the entries the data allows.
McpAnalysisChoices(sd, has_mcp) ==
    IF ~has_mcp THEN {EmptyDict}
    ELSE LET allowed == (IF sd.keywords # <<>> THEN {"keyword_chart"} ELSE {})
                          \cup (IF sd.categories # <<>> THEN {"category_chart"} ELSE {})
                          \cup (IF sd.summaries # <<>> THEN {"content_statistics"} ELSE {})
         IN {[k \in S |-> IF k = "content_statistics"
                          THEN [total_summaries |-> Len(sd.summaries),
                                analysis_method |-> "mcp_sqlite"]
                          ELSE [chart |-> k]] : S \in SUBSET allowed}

(* ---- ProcessorAgent._rule_based_analysis (processor_agent.py 325-382) ---- *)
\* the ratios are kept as pairs <<numerator, denominator>>
RuleBasedAnalysis(sd, user_request) ==
    IF sd.total_sites = 0 THEN Failed("ZeroDivisionError")
    ELSE LET request_keywords == Range(ExtractKeywords(user_request))
             content_keywords == Range(FirstNames(sd.keywords, 20))
             keyword_overlap == Cardinality(request_keywords \cap content_keywords)
         IN Completed(
            [data_quality |->
                [overall_score |-> <<sd.successful_scrapes, sd.total_sites>>,
                 coverage |-> IF 10 * sd.successful_scrapes > 7 * sd.total_sites THEN "good"
                              ELSE IF 2 * sd.successful_scrapes > sd.total_sites THEN "moderate"
                              ELSE "poor",
                 completeness |-> <<Len(sd.summaries), sd.total_sites>>],
             trends_patterns |->
                (IF sd.categories # <<>> THEN <<<<"top category", TopCategory(sd.categories)>>>>
                 ELSE <<>>)
                \o (IF sd.keywords # <<>> THEN <<<<"top keywords", FirstNames(sd.keywords, 5)>>>>
                    ELSE <<>>),
             relevance_assessment |->
                [keyword_overlap |-> keyword_overlap,
                 relevance_score |-> IF request_keywords # {}
                                     THEN <<keyword_overlap, Cardinality(request_keywords)>>
                                     ELSE <<0, 1>>,
                 coverage_level |-> IF keyword_overlap > 3 THEN "high"
                                    ELSE IF keyword_overlap > 1 THEN "moderate" ELSE "low"],
             gaps_identified |->
                (IF 10 * sd.successful_scrapes < 7 * sd.total_sites
                 THEN <<"site access">> ELSE <<>>)
                \o (IF Len(sd.categories) < 2 THEN <<"category variety">> ELSE <<>>),
             actionable_insights |->
                (IF sd.keywords # <<>> THEN <<<<"collect more on", sd.keywords[1][1]>>>>
                 ELSE <<>>)
                \o (IF sd.categories # <<>> THEN <<<<"analyse", TopCategory(sd.categories)>>>>
                    ELSE <<>>)])

\* dict.update: the entries of b added to a, replacing equal keys (line 110)
Update(a, b) ==
    [k \in (DOMAIN a) \cup (DOMAIN b) |-> IF k \in DOMAIN b THEN b[k] ELSE a[k]]

(* ---- ProcessorAgent.process_data (processor_agent.py 85-132) ---- *)
\* mcp_analysis is the value _perform_mcp_analysis gives at line 103. No
\* statement of the method is inside a try block: an exception of a helper
\* leaves process_data.
ProcessData(collected_data, mcp_analysis) ==
    IF collected_data.status # "success"
    THEN Completed([status |-> "error", message |-> "no collected data", data |-> EmptyDict])
    ELSE LET raw_data == collected_data.raw_data
             structured_data == StructureData(raw_data)
             insights == GenerateInsights(structured_data)
             ai_analysis == RuleBasedAnalysis(structured_data,
                                              collected_data.data.user_request)
         IN IF insights.raised # "none" THEN insights
            ELSE IF ai_analysis.raised # "none" THEN ai_analysis
            ELSE Completed(
                [status |-> "success",
                 message |-> "processing completed",
                 data |->
                    [structured_data |-> structured_data,
                     insights |-> insights.value,
                     ai_analysis |-> Update(ai_analysis.value, mcp_analysis),
                     processing_summary |->
                        [total_processed |-> Len(raw_data),
                         successful_processing |-> structured_data.successful_scrapes,
                         categories_found |-> Len(structured_data.categories),
                         keywords_extracted |-> Len(structured_data.keywords)]]])

\* a caller hands an envelope to process_data
ProcessDataCall ==
    /\ proc = NoValue
    /\ \E collected_data \in CollectedChoices, has_mcp \in BOOLEAN :
          \E mcp_analysis \in McpAnalysisChoices(StructureData(collected_data.raw_data),
                                                 has_mcp) :
             proc' = [collected_data |-> collected_data,
                      has_mcp |-> has_mcp,
                      outcome |-> ProcessData(collected_data, mcp_analysis)]
    /\ UNCHANGED <<orchVars, mcpVars, qryVars, extVars>>

\* the caller takes what the call ended with
ProcessDataDone ==
    /\ proc # NoValue
    /\ proc' = NoValue
    /\ UNCHANGED <<orchVars, mcpVars, qryVars, extVars>>

ProcInit == proc = NoValue

ProcNext == ProcessDataCall \/ ProcessDataDone

(***************************************************************************)
(*               PART 5: CollectorAgent.collect_information                *)
(***************************************************************************)

\* search_results[:5] of line 165 and max_results=5 of line 102
MaxResults == 5

\* the pages the MCP search and the legacy search can name
McpUrls == <<"m1", "m2", "m3", "m4", "m5">>
LegacyUrls == <<"u1", "u2", "u3", "u4", "u5">>

\* the elements of q at the positions of S, in order
RECURSIVE Pick(_, _, _)
Pick(q, S, i) ==
    IF i > Len(q) THEN <<>>
    ELSE (IF i \in S THEN <<q[i]>> ELSE <<>>) \o Pick(q, S, i + 1)

(* ---- CollectorAgent._collect_with_mcp (collector_agent.py 140-195) ---- *)
\* One record per search result, among the first five, whose scrape reported
\* success before a tool call raised; the except clause of line 192 keeps the
\* records appended so far.
McpRecord(url) ==
    [status |-> "success", url |-> url, content |-> "artificial intelligence",
     source |-> "mcp_firecrawl"]

CollectWithMcpChoices(has_mcp) ==
    IF ~has_mcp THEN {<<>>}
    ELSE {Pick([i \in 1..MaxResults |-> McpRecord(McpUrls[i])], S, 1) :
             S \in SUBSET (1..MaxResults)}

\* `not mcp_data or len(mcp_data) < 3` (line 101)
NeedsFallback(mcp_data) == mcp_data = <<>> \/ Len(mcp_data) < 3

(* ---- WebScraper.search_websites (web_scraper.py 142-171) ---- *)
SearchWebsitesChoices == {SubSeq(LegacyUrls, 1, n) : n \in 0..MaxResults}

(* ---- WebScraper.scrape_multiple_sites (web_scraper.py 173-190) ---- *)
\* One record per url. by_requests are the positions scrape_with_requests
\* succeeds at; the others are retried by scrape_with_selenium, which sets
\* the driver up outside any try block (lines 92-93, 24-35) and succeeds at
\* the positions of by_selenium.
ScrapeMultipleSites(urls, by_requests, driver_ok, by_selenium) ==
    IF ~driver_ok /\ (1..Len(urls)) \ by_requests # {}
    THEN Failed("WebDriverException")
    ELSE Completed([i \in 1..Len(urls) |->
                      IF i \in by_requests \cup by_selenium
                      THEN [status |-> "success", url |-> urls[i],
                            content |-> "technology news"]
                      ELSE [status |-> "error", url |-> urls[i], error |-> "timeout"]])

(* ---- CollectorAgent.collect_information (collector_agent.py 110-121) ---- *)
\* urls is the local variable of line 102: NoValue while it is not assigned.
\* The message of line 118 reads it.
CollectorReturn(urls, scraped_data, user_request) ==
    IF urls = NoValue THEN Failed("UnboundLocalError")
    ELSE Completed([CollectInformation(scraped_data, user_request) EXCEPT
                        !.message = <<Len(urls.list), "sites collected">>])

\* lines 88-97: the call starts; self.mcp_client is set or None
CollectCall ==
    /\ coll = NoValue
    /\ \E u \in ProcessorRequests, has_mcp \in BOOLEAN :
          coll' = [pc |-> "mcp", user_request |-> u, has_mcp |-> has_mcp,
                   mcp_data |-> <<>>, urls |-> NoValue, fallback_data |-> <<>>,
                   outcome |-> NoValue]
    /\ UNCHANGED <<baseVars, chatVars, distVars, httpVars>>

\* line 97 and the test of line 101
CollectWithMcp ==
    /\ coll # NoValue /\ coll.pc = "mcp"
    /\ \E mcp_data \in CollectWithMcpChoices(coll.has_mcp) :
          coll' = [coll EXCEPT !.mcp_data = mcp_data,
                               !.pc = IF NeedsFallback(mcp_data) THEN "fallback"
                                      ELSE "return"]
    /\ UNCHANGED <<baseVars, chatVars, distVars, httpVars>>

\* lines 102-107
Fallback ==
    /\ coll # NoValue /\ coll.pc = "fallback"
    /\ \E urls \in SearchWebsitesChoices :
          \E by_requests \in SUBSET (1..Len(urls)), driver_ok \in BOOLEAN :
          \E by_selenium \in SUBSET ((1..Len(urls)) \ by_requests) :
          LET scraped == IF urls # <<>>
                         THEN ScrapeMultipleSites(urls, by_requests, driver_ok, by_selenium)
                         ELSE Completed(<<>>)
          IN coll' = IF scraped.raised # "none"
                     THEN [coll EXCEPT !.urls = [list |-> urls],
                                       !.outcome = scraped, !.pc = "done"]
                     ELSE [coll EXCEPT !.urls = [list |-> urls],
                                       !.fallback_data = scraped.value,
                                       !.pc = "return"]
    /\ UNCHANGED <<baseVars, chatVars, distVars, httpVars>>

\* lines 110-121
CollectReturn ==
    /\ coll # NoValue /\ coll.pc = "return"
    /\ coll' = [coll EXCEPT
                   !.outcome = CollectorReturn(coll.urls,
                                               coll.mcp_data \o coll.fallback_data,
                                               coll.user_request),
                   !.pc = "done"]
    /\ UNCHANGED <<baseVars, chatVars, distVars, httpVars>>

\* the caller takes what the call ended with
CollectDone ==
    /\ coll # NoValue /\ coll.pc = "done"
    /\ coll' = NoValue
    /\ UNCHANGED <<baseVars, chatVars, distVars, httpVars>>

CollNext ==
    \/ CollectCall
    \/ CollectWithMcp
    \/ Fallback
    \/ CollectReturn
    \/ CollectDone

(***************************************************************************)
(*           PART 6: NewsScrapingChatApp.process_user_request              *)
(***************************************************************************)

\* the keys of workflow_results the four stage results are stored under
ResultKeys == <<"collector_result", "processor_result", "action_result", "reporter_result">>

\* the 'error' texts of lines 185, 196, 207 and 223
ChatErrors == <<"collection failed", "processing failed", "action failed", "report failed">>

\* How a stage executor can end: with an envelope whose status is success or
\* error, with a dict that has no 'status', or with an exception.
OutcomeKinds == {"success", "error", "no_status", "raises"}

StageOutcome(k, kind) ==
    IF kind = "raises" THEN Failed(StageExcText)
    ELSE IF kind = "no_status" THEN Completed([message |-> "m", stage |-> StepNames[k]])
    ELSE Completed([status |-> kind, message |-> "m", stage |-> StepNames[k]])

(* ---- lines 168-176 ---- *)
NewWorkflowResults(user_input) ==
    [user_request |-> user_input, timestamp |-> Timestamp,
     collector_result |-> NoValue, processor_result |-> NoValue,
     action_result |-> NoValue, reporter_result |-> NoValue,
     status |-> "started"]

\* the texts typed at the prompt that reach process_user_request (lines
\* 303-321: not empty, not a command)
ChatInputs == {"topic", "artificial intelligence", "technology news", "business company"}

\* the operation process_user_request calls on the executor of stage k, with
\* the number of arguments it passes (lines 181, 192, 203, 214-219)
ChatCalledOperation(k) ==
    <<[name |-> "collect_information", args |-> 1],
      [name |-> "process_data", args |-> 1],
      [name |-> "execute_action", args |-> 2],
      [name |-> "generate_report", args |-> 4]>>[k]

ChatBegin ==
    /\ chat = NoValue
    /\ \E u \in ChatInputs :
          chat' = [pc |-> "call", stage |-> 1, workflow_results |-> NewWorkflowResults(u),
                   invoked |-> <<>>, raised |-> 0]
    /\ UNCHANGED <<baseVars, collVars, distVars, httpVars>>

(* ---- the stage call and the store, e.g. lines 181-182 ---- *)
\* An exception is caught at line 230; the function returns at line 239.
ChatStageCall(kind) ==
    /\ chat # NoValue /\ chat.pc = "call"
    /\ LET k == chat.stage
           out == StageOutcome(k, kind)
       IN chat' = IF out.raised # "none"
                  THEN [chat EXCEPT
                           !.workflow_results = Put(Put(@, "status", "error"), "error", out.raised),
                           !.pc = "done",
                           !.invoked = Append(@, StepNames[k]),
                           !.raised = k]
                  ELSE [chat EXCEPT
                           !.workflow_results = Put(@, ResultKeys[k], out.value),
                           !.pc = "check",
                           !.invoked = Append(@, StepNames[k])]
    /\ UNCHANGED <<baseVars, collVars, distVars, httpVars>>

\* variant: a stage that did not succeed is passed over and the next one is run
CheckResult_Mutant(wr, k) ==
    LET result == wr[ResultKeys[k]] IN
    IF "status" \notin DOMAIN result
    THEN [workflow_results |-> Put(Put(wr, "status", "error"), "error", KeyErrorText),
          pc |-> "done", stage |-> k]
    ELSE IF k < 4
    THEN [workflow_results |-> wr, pc |-> "call", stage |-> k + 1]
    ELSE [workflow_results |-> Put(wr, "status", "completed"), pc |-> "done", stage |-> k]

(* ---- the test of the stored result, e.g. lines 184-189, and line 228 ---- *)
\* wr is workflow_results. The KeyError of result['status'] is caught at
\* line 230.
CheckResult(wr, k) ==
    LET result == wr[ResultKeys[k]] IN
    IF "status" \notin DOMAIN result
    THEN [workflow_results |-> Put(Put(wr, "status", "error"), "error", KeyErrorText),
          pc |-> "done", stage |-> k]
    ELSE IF result.status # "success"
    THEN [workflow_results |-> Put(Put(wr, "status", "failed"), "error", ChatErrors[k]),
          pc |-> "done", stage |-> k]
    ELSE IF k < 4
    THEN [workflow_results |-> wr, pc |-> "call", stage |-> k + 1]
    ELSE [workflow_results |-> Put(wr, "status", "completed"), pc |-> "done", stage |-> k]

ChatCheck ==
    /\ chat # NoValue /\ chat.pc = "check"
    /\ LET next == CheckResult(chat.workflow_results, chat.stage)
       IN chat' = [chat EXCEPT !.workflow_results = next.workflow_results,
                               !.pc = next.pc,
                               !.stage = next.stage]
    /\ UNCHANGED <<baseVars, collVars, distVars, httpVars>>

\* line 239: the caller takes workflow_results
ChatReturn ==
    /\ chat # NoValue /\ chat.pc = "done"
    /\ chat' = NoValue
    /\ UNCHANGED <<baseVars, collVars, distVars, httpVars>>

ChatNext ==
    \/ ChatBegin
    \/ \E kind \in OutcomeKinds : ChatStageCall(kind)
    \/ ChatCheck
    \/ ChatReturn

(***************************************************************************)
(*                 PART 7: ReporterAgent.generate_report                   *)
(***************************************************************************)

\* the keys of distribution_results, in the order of the blocks of
\* _distribute_with_mcp (reporter_agent.py 178-184, 193-309)
Channels == <<"gmail", "slack", "notion", "chart_generation", "markdown_document">>

(* ---- lines 178-184 ---- *)
NotAttempted == [c \in {Channels[i] : i \in 1..5} |-> [status |-> "not_attempted"]]

\* How the block of channel i can end: the tool call reports success, it
\* reports a failure, or a statement of the block raises. final_report is the
\* dict of _compile_final_report (lines 670-685), so _format_email_report
\* (line 332, a join over a list that holds it) raises in the gmail block
\* before the tool is called.
ChannelOutcomes(i) ==
    IF i = 1 THEN {"raises"} ELSE {"success", "failed", "raises"}

(* ---- the entry a block stores, e.g. lines 206-213 ---- *)
ChannelResult(i, kind) ==
    IF kind = "raises" THEN [status |-> "error", message |-> "exception text"]
    ELSE IF i = 4
    THEN [status |-> IF kind = "success" THEN "success" ELSE "failed",
          chart_url |-> IF kind = "success" THEN "chart url" ELSE "",
          message |-> IF kind = "success" THEN "tool message" ELSE "Unknown error"]
    ELSE [status |-> IF kind = "success" THEN "success" ELSE "failed",
          message |-> IF kind = "success" THEN "tool message" ELSE "Unknown error"]

\* variant: an exception in a block ends the distribution
NextChannel_Mutant(i, kind) ==
    IF i = 5 \/ kind = "raises" THEN [pc |-> "save", channel |-> i + 1]
    ELSE [pc |-> "distribute", channel |-> i + 1]

\* Each block has its own try/except (lines 194, 214): whatever it ended
\* with, the next block follows, and _save_report after the last.
NextChannel(i, kind) ==
    IF i = 5 THEN [pc |-> "save", channel |-> i + 1]
    ELSE [pc |-> "distribute", channel |-> i + 1]

(* ---- ReporterAgent._save_report (reporter_agent.py 141-174) ---- *)
\* f.write of the report dict raises inside the try block
SaveReport == [status |-> "error", message |-> "report not saved"]

(* ---- generate_report, lines 88-105: the report is compiled ---- *)
ReportCall ==
    /\ dist = NoValue
    /\ \E has_mcp \in BOOLEAN, u \in ChatInputs :
          dist' = [pc |-> IF has_mcp THEN "distribute" ELSE "save",
                   user_request |-> u,
                   has_mcp |-> has_mcp,
                   channel |-> 1,
                   distribution_results |-> IF has_mcp THEN NotAttempted ELSE EmptyDict,
                   attempts |-> <<>>,
                   kinds |-> <<>>,
                   outcome |-> NoValue]
    /\ UNCHANGED <<baseVars, collVars, chatVars, httpVars>>

(* ---- one block of _distribute_with_mcp ---- *)
DistributeChannel(kind) ==
    /\ dist # NoValue /\ dist.pc = "distribute"
    /\ kind \in ChannelOutcomes(dist.channel)
    /\ LET i == dist.channel
           next == NextChannel(i, kind)
       IN dist' = [dist EXCEPT
                      !.distribution_results = Put(@, Channels[i], ChannelResult(i, kind)),
                      !.attempts = Append(@, Channels[i]),
                      !.kinds = Append(@, kind),
                      !.pc = next.pc,
                      !.channel = next.channel]
    /\ UNCHANGED <<baseVars, collVars, chatVars, httpVars>>

(* ---- generate_report, lines 107-119 ---- *)
ReportSave ==
    /\ dist # NoValue /\ dist.pc = "save"
    /\ dist' = [dist EXCEPT
                   !.outcome = Completed(
                       [status |-> "success",
                        message |-> "report generated",
                        data |-> [saved_path |-> Get(SaveReport, "filepath", ""),
                                  file_size |-> Get(SaveReport, "file_size", 0),
                                  distribution_results |-> dist.distribution_results]]),
                   !.pc = "done"]
    /\ UNCHANGED <<baseVars, collVars, chatVars, httpVars>>

\* the caller takes the envelope
ReportReturn ==
    /\ dist # NoValue /\ dist.pc = "done"
    /\ dist' = NoValue
    /\ UNCHANGED <<baseVars, collVars, chatVars, httpVars>>

DistNext ==
    \/ ReportCall
    \/ \E kind \in {"success", "failed", "raises"} : DistributeChannel(kind)
    \/ ReportSave
    \/ ReportReturn

(***************************************************************************)
(*          PART 8: the route POST /workflow/execute (agent_server.py)     *)
(***************************************************************************)

\* A JSON value by what the route looks at: its type, whether it is truthy,
\* the names it contains (keys of an object, items of a list, substrings of
\* a string) and, for an object, its 'request_id' entry.
JsonValue(type, truthy, names, request_id) ==
    [type |-> type, truthy |-> truthy, names |-> names, request_id |-> request_id]

\* no body, or a body that is not JSON
MissingBody == JsonValue("missing", FALSE, {}, "<None>")

\* bodies without a 'user_request' field
InvalidBodies ==
    { MissingBody,
      JsonValue("null", FALSE, {}, "<None>"),
      JsonValue("object", FALSE, {}, "<None>"),
      JsonValue("object", TRUE, {"request_id"}, "req1"),
      JsonValue("number", FALSE, {}, "<None>"),
      JsonValue("number", TRUE, {}, "<None>"),
      JsonValue("list", TRUE, {"other"}, "<None>"),
      JsonValue("list", TRUE, {"user_request"}, "<None>"),
      JsonValue("string", TRUE, {"user_request"}, "<None>") }

\* objects with a 'user_request' field, with and without a 'request_id'
ValidBodies ==
    { JsonValue("object", TRUE,
                IF x = "<None>" THEN {"user_request"} ELSE {"user_request", "request_id"}, x)
        : x \in RequestIdInputs }

(* ---- request.get_json() (line 207) ---- *)
\* For a request without a JSON body the installed Flask either returns None
\* or raises an HTTPException; the repository pins no version.
GetJson(body, lenient) ==
    IF body.type = "missing"
    THEN IF lenient THEN Completed(JsonValue("null", FALSE, {}, "<None>"))
         ELSE Failed("HTTPException")
    ELSE Completed(body)

\* 'user_request' not in data  (line 209): a number has no membership test
NotIn(data) ==
    IF data.type = "number" THEN Failed("TypeError")
    ELSE Completed([bool |-> "user_request" \notin data.names])

\* data['user_request']  (line 215): only an object is indexed by a name
Subscript(data) ==
    IF data.type = "object" THEN Completed([text |-> "topic"]) ELSE Failed("TypeError")

JsonResponse(code, status) == [code |-> code, status |-> status]

(* ---- execute_workflow (route), lines 206-216 and the handler 223-227 ---- *)
ValidateRequest(body, lenient) ==
    LET got == GetJson(body, lenient) IN
    IF got.raised # "none" THEN [response |-> JsonResponse(500, "error")]
    ELSE LET data == got.value IN
         IF ~data.truthy THEN [response |-> JsonResponse(400, "error")]
         ELSE IF NotIn(data).raised # "none" THEN [response |-> JsonResponse(500, "error")]
         ELSE IF NotIn(data).value.bool THEN [response |-> JsonResponse(400, "error")]
         ELSE IF Subscript(data).raised # "none" THEN [response |-> JsonResponse(500, "error")]
         ELSE [response |-> NoValue,
               user_request |-> Subscript(data).value.text,
               request_id |-> data.request_id]

\* A request arrives and the route handles it up to the orchestrator call. A
\* body with the field is drawn while a request thread r is free.
RouteValidate ==
    /\ http = NoValue
    /\ \E r \in 1..NumStoreRuns, lenient \in BOOLEAN :
       \E body \in (IF pc[r] = "idle" THEN ValidBodies ELSE {}) \cup InvalidBodies :
          LET v == ValidateRequest(body, lenient) IN
          http' = IF v.response # NoValue
                  THEN [pc |-> "responded", body |-> body, run |-> 0,
                        store_before |-> workflow_status,
                        user_request |-> "", request_id |-> "<None>",
                        response |-> v.response]
                  ELSE [pc |-> "accepted", body |-> body, run |-> r,
                        store_before |-> workflow_status,
                        user_request |-> v.user_request, request_id |-> v.request_id,
                        response |-> NoValue]
    /\ UNCHANGED <<baseVars, collVars, chatVars, distVars>>

(* ---- line 219: orchestrator.execute_workflow(user_request, request_id) ---- *)
RouteCall ==
    /\ http # NoValue /\ http.pc = "accepted"
    /\ Begin(http.run)
    /\ ureq'[http.run] = http.user_request
    /\ rid'[http.run] = IF Falsy(http.request_id) THEN GenerateId(clock) ELSE http.request_id

(* ---- line 221, or the handler of lines 223-227 ---- *)
RouteRespond ==
    /\ http # NoValue /\ http.pc = "accepted"
    /\ pc[http.run] \in {"returned", "raised"}
    /\ http' = [http EXCEPT
                   !.pc = "responded",
                   !.response = IF pc[http.run] = "raised"
                                THEN JsonResponse(500, "error")
                                ELSE JsonResponse(200, ret[http.run].status)]
    /\ UNCHANGED <<baseVars, collVars, chatVars, distVars>>

\* the response has been sent
RouteDone ==
    /\ http # NoValue /\ http.pc = "responded"
    /\ http' = NoValue
    /\ UNCHANGED <<baseVars, collVars, chatVars, distVars>>

\* the steps of an execute_workflow call after its entry
RequestStep(r) ==
    \/ Checkpointing(r)
    \/ StageCall(r)
    \/ LogAndCheck(r)
    \/ Complete(r)
    \/ SetCompleted(r)
    \/ SetEndTime(r)
    \/ SetResult(r)
    \/ HandleError(r)
    \/ SetErrorEndTime(r)
    \/ SetError(r)

\* no call of the components of PARTS 5 to 8 is in progress
ExtInit ==
    /\ coll = NoValue
    /\ chat = NoValue
    /\ dist = NoValue
    /\ http = NoValue

vars == <<orchVars, mcpVars, qryVars, procVars, extVars>>

Init == OrchInit /\ MCPIdle /\ QueryInit /\ ProcInit /\ ExtInit
Next == OrchNext
Spec == Init /\ [][Next]_vars

\* The orchestrator with the stage executors shipped in the repository. The
\* steps after a successful reporting stage (lines 104-131) cannot be reached
\* with them and are not part of this next-state relation.
InitShipped == OrchInit /\ MCPIdle /\ QueryInit /\ ProcInit /\ ExtInit
NextShipped ==
    \/ \E r \in Runs : Begin(r)
    \/ \E r \in Runs : Checkpointing(r)
    \/ \E r \in Runs : ShippedStageCall(r)
    \/ \E r \in Runs : LogAndCheck(r)
    \/ \E r \in Runs : HandleError(r)
    \/ \E r \in Runs : SetErrorEndTime(r)
    \/ \E r \in Runs : SetError(r)
    \/ Tick
SpecShipped == InitShipped /\ [][NextShipped]_vars

\* The store read by other request threads while calls run

RunStep(r) ==
    \/ Begin(r)
    \/ Checkpointing(r)
    \/ StageCall(r)
    \/ LogAndCheck(r)
    \/ Complete(r)
    \/ SetCompleted(r)
    \/ SetEndTime(r)
    \/ SetResult(r)
    \/ HandleError(r)
    \/ SetErrorEndTime(r)
    \/ SetError(r)

InitStore == OrchInit /\ MCPIdle /\ QueryInit /\ ProcInit /\ ExtInit
NextStore ==
    \/ \E r \in 1..NumStoreRuns : RunStep(r)
    \/ Tick
    \/ QueryNext
SpecStore == InitStore /\ [][NextStore]_vars

\* The tool-invocation client on its own
InitMCP == OrchInit /\ MCPInit /\ QueryInit /\ ProcInit /\ ExtInit
NextMCP == MCPNext
SpecMCP == InitMCP /\ [][NextMCP]_vars

\* The processing agent called with the collector's envelopes
InitProcessor == OrchInit /\ MCPIdle /\ QueryInit /\ ProcInit /\ ExtInit
NextProcessor == ProcNext
SpecProcessor == InitProcessor /\ [][NextProcessor]_vars

\* The orchestrator whose started calls keep running: a thread that is inside
\* execute_workflow takes its next step, and a stage that was invoked returns
\* or raises. Nothing makes a new request arrive.
Progress(r) ==
    \/ Checkpointing(r)
    \/ StageCall(r)
    \/ LogAndCheck(r)
    \/ Complete(r)
    \/ SetCompleted(r)
    \/ SetEndTime(r)
    \/ SetResult(r)
    \/ HandleError(r)
    \/ SetErrorEndTime(r)
    \/ SetError(r)

InitLive == OrchInit /\ MCPIdle /\ QueryInit /\ ProcInit /\ ExtInit
NextLive ==
    \/ \E r \in 1..NumStoreRuns : RunStep(r)
    \/ Tick
SpecLive ==
    InitLive /\ [][NextLive]_vars /\ \A r \in 1..NumStoreRuns : WF_vars(Progress(r))

\* The collecting agent
InitCollector == OrchInit /\ MCPIdle /\ QueryInit /\ ProcInit /\ ExtInit
NextCollector == CollNext
SpecCollector == InitCollector /\ [][NextCollector]_vars

\* The chat application
InitChat == OrchInit /\ MCPIdle /\ QueryInit /\ ProcInit /\ ExtInit
NextChat == ChatNext
SpecChat == InitChat /\ [][NextChat]_vars

\* The two drivers of the pipeline, each running the executors shipped in the
\* repository
ShippedRunStep(r) ==
    \/ Begin(r)
    \/ Checkpointing(r)
    \/ ShippedStageCall(r)
    \/ LogAndCheck(r)
    \/ HandleError(r)
    \/ SetErrorEndTime(r)
    \/ SetError(r)

InitDrivers == OrchInit /\ MCPIdle /\ QueryInit /\ ProcInit /\ ExtInit
NextDrivers ==
    \/ \E r \in 1..NumStoreRuns : ShippedRunStep(r)
    \/ ChatNext
SpecDrivers == InitDrivers /\ [][NextDrivers]_vars

\* The reporting agent
InitReporter == OrchInit /\ MCPIdle /\ QueryInit /\ ProcInit /\ ExtInit
NextReporter == DistNext
SpecReporter == InitReporter /\ [][NextReporter]_vars

\* The HTTP server: requests to POST /workflow/execute and the runs they start
InitServer == OrchInit /\ MCPIdle /\ QueryInit /\ ProcInit /\ ExtInit
NextServer ==
    \/ RouteValidate
    \/ RouteCall
    \/ RouteRespond
    \/ RouteDone
    \/ \E r \in 1..NumStoreRuns : RequestStep(r)
    \/ Tick
SpecServer == InitServer /\ [][NextServer]_vars

\* The client with the history of one earlier mock call
\* (the clients of two agents; the environment is not read by the client)
InitMock ==
    /\ OrchInit /\ MCPInit /\ QueryInit /\ ProcInit /\ ExtInit
    /\ agent_name \in {"collector", "action"}
    /\ env = [k \in EnvKeys |-> ""]
NextMock ==
    \/ MCPNext
    \/ RememberMockCall
SpecMock == InitMock /\ [][NextMock]_vars

(***************************************************************************)
(*                    Properties of the orchestrator                       *)
(***************************************************************************)

\* Call r has created the entry of its request_id, no later call has
\* re-created it, and no other call used the same id while r was in flight.
Valid(r) ==
    /\ pc[r] \notin {"idle", "raised"}
    /\ r \notin disturbed
    /\ owner[rid[r]] = r

Entry(r) == workflow_status[rid[r]]

\* stage k of call r returned an envelope whose status is not 'success'
FailedAt(r, k) ==
    /\ StepNames[k] \in DOMAIN results[r]
    /\ Get(results[r][StepNames[k]], "status", "unknown") # "success"

AllSucceeded(r) ==
    \A k \in 1..4 : /\ StepNames[k] \in DOMAIN results[r]
                    /\ Get(results[r][StepNames[k]], "status", "unknown") = "success"

\* C1: fail-fast. Once stage k of a call has returned a non-success envelope,
\* the stages invoked are exactly the first k, the call is on its way out
\* through _handle_error, its step log holds the k entries (k-1 successes and
\* the failing one; k-1 entries while the k-th is being appended) and never
\* more, and the envelope returned has status error.
C1_FailFast ==
    \A r \in Runs, k \in 1..4 :
        FailedAt(r, k) =>
            /\ invoked[r] = SubSeq(StepNames, 1, k)
            /\ pc[r] \in {"log", "err_status", "err_end", "err_error", "returned"}
            /\ (pc[r] = "returned" => ret[r].status = "error")
            /\ Valid(r) =>
                 LET steps == Entry(r).steps IN
                 /\ Len(steps) = IF pc[r] = "log" THEN k - 1 ELSE k
                 /\ \A i \in 1..Len(steps) :
                      /\ steps[i].step = StepNames[i]
                      /\ steps[i].status = IF i < k THEN "success"
                                           ELSE Get(results[r][StepNames[k]], "status", "unknown")

\* C1 witness: processing returned status error, the call has returned, two entries
C1_Witness ==
    \E r \in Runs :
        /\ Valid(r) /\ pc[r] = "returned"
        /\ FailedAt(r, 2) /\ Get(results[r]["processing"], "status", "unknown") = "error"
        /\ Len(Entry(r).steps) = 2
        /\ Entry(r).steps[2].status = "error"
        /\ ret[r].status = "error"

\* C2: after execute_workflow has returned for a request_id, the status
\* query gives completed or error, and progress is 100 iff completed.
C2_TerminalStatus ==
    \A r \in Runs :
        (Valid(r) /\ pc[r] = "returned") =>
            LET s == GetWorkflowStatus(rid[r]) IN
            /\ s.status \in {"completed", "error"}
            /\ (s.progress = 100) <=> (s.status = "completed")

\* C2 witness: the reporting stage raised; the call returned
C2_Witness ==
    \E r \in Runs :
        /\ Valid(r) /\ pc[r] = "returned"
        /\ Len(invoked[r]) = 4
        /\ "reporting" \notin DOMAIN results[r]
        /\ GetWorkflowStatus(rid[r]).status = "error"
        /\ GetWorkflowStatus(rid[r]).progress = 90

\* C3: when the four stages returned success, the call ends with status
\* completed, progress 100, the step log [collection, processing, action,
\* reporting], and the result returned and stored holds the four envelopes
\* as the stages returned them.
C3_SuccessPath ==
    \A r \in Runs :
        (Valid(r) /\ AllSucceeded(r) /\ pc[r] = "returned") =>
            LET s == Entry(r) IN
            /\ s.status = "completed"
            /\ s.progress = 100
            /\ [i \in 1..Len(s.steps) |-> s.steps[i].step] = StepNames
            /\ \A i \in 1..Len(s.steps) : s.steps[i].status = "success"
            /\ ret[r].status = "success"
            /\ ret[r].results = [collection |-> results[r]["collection"],
                                 processing |-> results[r]["processing"],
                                 action |-> results[r]["action"],
                                 report |-> results[r]["reporting"]]
            /\ "result" \in DOMAIN s
            /\ s.result = ret[r]

C3_Witness ==
    \E r \in Runs :
        /\ Valid(r) /\ AllSucceeded(r) /\ pc[r] = "returned"
        /\ Entry(r).status = "completed"
        /\ Len(Entry(r).steps) = 4

\* C4 (as claimed): execute_workflow never propagates an exception, and a
\* stage that raised gives an error envelope carrying the exception text with
\* the state set to error.
C4_NeverPropagates ==
    \A r \in Runs :
        /\ pc[r] # "raised"
        /\ (pc[r] = "returned" /\ "message" \in DOMAIN errargs[r]
              /\ errargs[r].message.kind = "workflow exception") =>
                 /\ ret[r].status = "error"
                 /\ ret[r].message.text \in {StageExcText, KeyErrorText}
                 /\ (Valid(r) => Entry(r).status = "error")

ProgressOrder == <<0, 25, 50, 75, 90, 100>>
ProgressValues == {ProgressOrder[i] : i \in 1..Len(ProgressOrder)}

\* C5: during one call the progress a status query returns never decreases
\* from one moment to the next and is one of 0, 25, 50, 75, 90, 100.
C5_ProgressMonotone ==
    [][\A r \in Runs :
          (Valid(r) /\ Valid(r)') =>
              /\ GetWorkflowStatus(rid[r])'.progress >= GetWorkflowStatus(rid[r]).progress
              /\ GetWorkflowStatus(rid[r])'.progress \in ProgressValues]_vars

C5_Witness ==
    \E r \in Runs : Valid(r) /\ pc[r] = "fin_status" /\ GetWorkflowStatus(rid[r]).progress = 100

\* What the entry of call r must hold, computed from r's own position and
\* its own stage outcomes alone.
ExpectedStatus(r) ==
    CASE pc[r] \in {"fin_end", "fin_result"} -> "completed"
      [] pc[r] \in {"err_end", "err_error"} -> "error"
      [] pc[r] = "returned" -> IF ret[r].status = "success" THEN "completed" ELSE "error"
      [] OTHER -> "running"

Finishing(r) ==
    \/ pc[r] \in {"fin_status", "fin_end", "fin_result"}
    \/ pc[r] = "returned" /\ ret[r].status = "success"

ExpectedStep(r) ==
    IF Finishing(r) THEN "completed"
    ELSE IF pc[r] = "upd"
         THEN (IF stage[r] = 1 THEN "initialization" ELSE StepNames[stage[r] - 1])
         ELSE StepNames[stage[r]]

ExpectedProgress(r) ==
    IF Finishing(r) THEN 100
    ELSE IF pc[r] = "upd"
         THEN (IF stage[r] = 1 THEN 0 ELSE Checkpoint[stage[r] - 1])
         ELSE Checkpoint[stage[r]]

ExpectedSteps(r) ==
    LET n == IF pc[r] = "log" THEN Cardinality(DOMAIN results[r]) - 1
             ELSE Cardinality(DOMAIN results[r])
    IN [i \in 1..n |->
          [step |-> StepNames[i],
           status |-> Get(results[r][StepNames[i]], "status", "unknown"),
           timestamp |-> Timestamp,
           message |-> Get(results[r][StepNames[i]], "message", "")]]

\* C6: calls with distinct request_ids own separate entries, and in every
\* interleaving each entry holds exactly what its own call wrote.
C6_NonInterference ==
    \A r \in Runs :
        Valid(r) =>
            LET e == Entry(r) IN
            /\ e.status = ExpectedStatus(r)
            /\ e.current_step = ExpectedStep(r)
            /\ e.progress = ExpectedProgress(r)
            /\ e.steps = ExpectedSteps(r)
            /\ ("result" \in DOMAIN e) <=> (pc[r] = "returned" /\ ret[r].status = "success")
            /\ ("error" \in DOMAIN e) <=> (pc[r] = "returned" /\ ret[r].status = "error")
            /\ ("result" \in DOMAIN e => e.result = ret[r])
            /\ ("error" \in DOMAIN e => e.error = ret[r])
            /\ \A q \in Runs \ {r} : InFlight(q) => rid[q] # rid[r]

\* C6 witness: two calls in flight at once, one finishing, one failing
C6_Witness ==
    \E r, q \in Runs :
        /\ r # q /\ Valid(r) /\ Valid(q)
        /\ pc[r] = "fin_end" /\ pc[q] = "err_end"
        /\ Len(Entry(r).steps) = 4 /\ Len(Entry(q).steps) = 2
(***************************************************************************)
(*                Properties of the tool-invocation client                 *)
(***************************************************************************)

\* C7: call_tool never raises; whatever the server, tool, arguments and
\* client state, and also when the session's call raises, it returns a
\* mapping with a boolean 'success'.
C7_CallToolNeverRaises ==
    call # NoValue =>
        /\ ~IsRaised(call.result)
        /\ "success" \in DOMAIN call.result
        /\ call.result.success \in BOOLEAN

\* C7 witness: the real session's call raised and the caller got success=false
C7_Witness ==
    /\ call # NoValue
    /\ call.session = "real"
    /\ call.result = [success |-> FALSE, error |-> "backend failure"]

\* C8 (as claimed): after initialize_servers every permitted server whose
\* configuration is missing or whose real session was not established is
\* served by a mock session, and a call to it is routed to the mock.
C8_MockFallback ==
    phase = "initialized" =>
        /\ \A s \in Range(AvailableServers) :
              (~IsServerAvailable(s) \/ Get(active_sessions, s, "none") # "real")
                  => Get(active_sessions, s, "none") = "mock"
        /\ (call # NoValue /\ call.server \in Range(AvailableServers)
              /\ (~IsServerAvailable(call.server) \/ call.session # "real"))
                  => call.session = "mock"

\* C9 (as claimed): with every session a mock, every call a stage executor
\* issues returns success=true.
C9_StageCallsSucceed ==
    (/\ ~mcp_available /\ phase = "initialized" /\ call # NoValue
     /\ <<call.server, call.tool>> \in StageCalls(Lower(agent_name))
     /\ IsMapping(call.arguments))
        => call.result.success = TRUE

\* the keys the callers read from a tool's response
\* (collector_agent.py 161, 184-185; reporter_agent.py 208, 230, 281-282)
RequiredKeys(t) ==
    CASE t = "search" -> {"results"}
      [] t = "scrape_url" -> {"content", "metadata"}
      [] t = "create_chart" -> {"chart_url", "message"}
      [] t = "send_email" -> {"message"}
      [] t = "send_message" -> {"message"}
      [] OTHER -> {}

C11_EnvelopeShape ==
    call # NoValue =>
        /\ ("result" \in DOMAIN call.result) <=> (call.result.success = TRUE)
        /\ ("error" \in DOMAIN call.result) <=> (call.result.success = FALSE)

\* C12: permission. The sessions a client holds are always among the servers
\* of its agent's routing-table entry, and a call naming any other server
\* returns success=false without reaching a session.
C12_Permission ==
    LET permitted == Range(AgentServerMapping(Lower(agent_name))) IN
    /\ DOMAIN active_sessions \subseteq permitted
    /\ (call # NoValue /\ call.server \notin permitted) =>
          /\ call.session = "none"
          /\ call.result.success = FALSE
          /\ "error" \in DOMAIN call.result

\* C12 witness: the collector's client, initialised with sessions, asked for gmail
C12_Witness ==
    /\ agent_name = "collector" /\ phase = "initialized"
    /\ DOMAIN active_sessions = {"firecrawl", "web_search", "filesystem"}
    /\ call # NoValue /\ call.server = "gmail" /\ call.tool = "send_email"
    /\ call.result.success = FALSE

\* a tool name that neither the tool catalog nor any caller knows for server s
Undeclared(s, t) == t \notin MockTools(s) \cup StageTools(s)

\* C13 (as claimed): on a permitted, initialised server a call naming a tool
\* the server does not declare returns success=false with an error and is
\* not forwarded to the backend, with a mock session and with a real one.
C13_ToolValidation ==
    (/\ call # NoValue
     /\ call.server \in Range(AvailableServers)
     /\ call.session # "none"
     /\ Undeclared(call.server, call.tool))
        => /\ call.result.success = FALSE
           /\ "error" \in DOMAIN call.result
           /\ "real" \notin Range(call.invocations)

\* C14: no automatic retry. One call_tool awaits a session's call_tool at
\* most once; when that one invocation raised, the caller gets success=false
\* with the exception text as error.
C14_NoRetry ==
    call # NoValue =>
        /\ Len(call.invocations) <= 1
        /\ (call.session = "none") <=> (call.invocations = <<>>)
        /\ call.session # "none" => call.invocations = <<call.session>>
        /\ IsRaised(call.outcome) =>
              call.result = [success |-> FALSE, error |-> call.outcome.exc]

\* C14 witness: the real session raised, one invocation, the error returned
C14_Witness ==
    /\ call # NoValue
    /\ call.invocations = <<"real">>
    /\ IsRaised(call.outcome)
    /\ call.result.success = FALSE
    /\ call.result.error = "backend failure"

\* C15 (as claimed): a mock call naming a tool that has no response template
\* of its own fails (success=false); no generic success is given, also not
\* for the declared tools crawl_site, read_file, write_file, list_directory.
C15_NoTemplateFails ==
    (/\ call # NoValue /\ call.session = "mock"
     /\ IsMapping(call.arguments)
     /\ call.tool \notin DOMAIN MockResponses(call.arguments))
        => /\ call.result.success = FALSE
           /\ "error" \in DOMAIN call.result

(***************************************************************************)
(*              Further properties of the orchestrator                     *)
(***************************************************************************)
StageOrder == <<"collection", "processing", "action", "reporting">>

IsPrefix(a, b) == Len(a) <= Len(b) /\ SubSeq(b, 1, Len(a)) = a

\* position of a current_step value in the forward order of the state machine
StepRank(step) ==
    CASE step = "initialization" -> 0
      [] step = "collection" -> 1
      [] step = "processing" -> 2
      [] step = "action" -> 3
      [] step = "reporting" -> 4
      [] OTHER -> 5

\* C16: within one call the stages are invoked in the order collection,
\* processing, action, reporting, each at most once and none skipped; a stage
\* is invoked only after the one before it returned success; and current_step
\* never moves back.
C16_StageOrder ==
    [][\A r \in Runs :
          /\ IsPrefix(invoked[r]', StageOrder)
          /\ \A i \in 1..(Len(invoked[r]') - 1) :
                /\ StageOrder[i] \in DOMAIN results[r]'
                /\ Get(results[r]'[StageOrder[i]], "status", "unknown") = "success"
          /\ (Valid(r) /\ Valid(r)') =>
                StepRank(Entry(r)'.current_step) >= StepRank(Entry(r).current_step)]_vars

\* C16 witness: a call that invoked the four stages in order and returned
C16_Witness ==
    \E r \in Runs :
        /\ Valid(r) /\ pc[r] = "returned"
        /\ invoked[r] = StageOrder
        /\ AllSucceeded(r)

\* C17: checkpoint before invocation. While stage k of a call is being
\* executed, a status query for its request_id shows status running,
\* current_step = stage k and the progress of that stage's checkpoint
\* (25, 50, 75, 90).
C17_CheckpointBeforeInvocation ==
    \A r \in Runs :
        (Valid(r) /\ pc[r] = "call") =>
            LET s == GetWorkflowStatus(rid[r]) IN
            /\ invoked[r] = SubSeq(StageOrder, 1, stage[r] - 1)
            /\ s.status = "running"
            /\ s.current_step = StageOrder[stage[r]]
            /\ s.progress = <<25, 50, 75, 90>>[stage[r]]

\* C17 witness: the action stage about to run, the state showing action / 75
C17_Witness ==
    \E r \in Runs :
        /\ Valid(r) /\ pc[r] = "call" /\ stage[r] = 3
        /\ GetWorkflowStatus(rid[r]).current_step = "action"
        /\ GetWorkflowStatus(rid[r]).progress = 75

\* C18 (as claimed): in every state of the store the current_step of every
\* entry is one of initialization, collection, processing, action, reporting.
C18_CurrentStepEnum ==
    \A id \in DOMAIN workflow_status :
        workflow_status[id].current_step \in
            {"initialization", "collection", "processing", "action", "reporting"}

\* C19 (as claimed): the step log of a request_id is append-only. From one
\* observation of a request_id to the next the earlier log is a prefix of
\* the later one, and the step names are a prefix of [collection,
\* processing, action, reporting].
C19_StepLogAppendOnly ==
    [][\A id \in DOMAIN workflow_status :
          /\ id \in DOMAIN workflow_status'
          /\ IsPrefix(workflow_status[id].steps, workflow_status'[id].steps)
          /\ IsPrefix([i \in 1..Len(workflow_status'[id].steps) |->
                          workflow_status'[id].steps[i].step], StageOrder)]_vars

TerminalKeys == {"end_time", "result", "error"}

\* C20 (as claimed): for calls with pairwise distinct request_ids an entry
\* never holds both 'result' and 'error'; 'end_time' is present exactly when
\* status is completed or error; 'result' comes only with completed and
\* 'error' only with error; and each of the three is written once only.
C20_TerminalFields ==
    [][\A r \in Runs :
          Valid(r)' =>
             LET e == Entry(r)' IN
             /\ ~("result" \in DOMAIN e /\ "error" \in DOMAIN e)
             /\ ("end_time" \in DOMAIN e) <=> (e.status \in {"completed", "error"})
             /\ ("result" \in DOMAIN e) => (e.status = "completed")
             /\ ("error" \in DOMAIN e) => (e.status = "error")
             /\ Valid(r) =>
                   \A k \in TerminalKeys \cap DOMAIN Entry(r) :
                       k \in DOMAIN e /\ e[k] = Entry(r)[k]]_vars

\* a call of request_id id is writing the terminal fields of the entry
Finalizing(id) ==
    \E q \in Runs : rid[q] = id /\ pc[q] \in {"fin_end", "fin_result", "err_end", "err_error"}

\* C21 (as claimed): terminal immutability. Once the entry of a request_id
\* has status completed or error (and the call that set it has written its
\* end_time and payload), no later operation changes any field of it.
C21_TerminalImmutable ==
    [][\A id \in DOMAIN workflow_status :
          (workflow_status[id].status \in {"completed", "error"} /\ ~Finalizing(id))
              => /\ id \in DOMAIN workflow_status'
                 /\ workflow_status'[id] = workflow_status[id]]_vars

\* f"req_{int(time.time())}" for some clock value
IsGenerated(id) == \E t \in 0..MaxClock : id = GenerateId(t)

\* C22 (as claimed): a call that omits request_id runs under an id that no
\* other call in flight at the same time uses.
C22_GeneratedIdsDistinct ==
    \A r, q \in Runs :
        (r # q /\ InFlight(r) /\ InFlight(q) /\ IsGenerated(rid[r])) => rid[q] # rid[r]

Succeeded(r, k) ==
    /\ StepNames[k] \in DOMAIN results[r]
    /\ Get(results[r][StepNames[k]], "status", "unknown") = "success"

\* C28 (as claimed): with the shipped stage executors, a call whose
\* collection and processing stages returned success runs the action stage
\* through an operation the executor provides, so that when the call has
\* returned its step log has an 'action' entry.
C28_ShippedStagesRun ==
    \A r \in Runs :
        (Valid(r) /\ pc[r] = "returned" /\ Succeeded(r, 1) /\ Succeeded(r, 2)) =>
            /\ Len(Entry(r).steps) >= 3
            /\ Entry(r).steps[3].step = "action"

\* C29 (as claimed): when execute_workflow has returned, every stage that
\* was invoked has exactly one entry in the step log, also a stage that
\* raised or returned a value without 'status'.
C29_InvokedStagesLogged ==
    \A r \in Runs :
        (Valid(r) /\ pc[r] = "returned") =>
            [i \in 1..Len(Entry(r).steps) |-> Entry(r).steps[i].step] = invoked[r]

(***************************************************************************)
(*                    Properties of the status queries                     *)
(***************************************************************************)

\* C23: get_workflow_status for a request_id that has no entry returns
\* {status: not_found} and leaves the store as it was: no entry is created
\* and none is modified.
C23_UnknownIdQuery ==
    [][(query = NoValue /\ query' # NoValue /\ query'.id \notin DOMAIN workflow_status)
          => /\ query'.result = [status |-> "not_found"]
             /\ workflow_status' = workflow_status
             /\ query'.id \notin DOMAIN workflow_status']_vars

\* C23 witness: the store holds an entry; a query for another id got not_found
C23_Witness ==
    /\ query # NoValue /\ query.id = "unknown"
    /\ query.result = [status |-> "not_found"]
    /\ DOMAIN workflow_status # {}
    /\ "unknown" \notin DOMAIN workflow_status

\* C24 (as claimed): the map get_all_statuses returned is a snapshot: it
\* keeps the content the store had at the time of the call, whatever the
\* calls do afterwards.
C24_AllStatusesSnapshot ==
    all_query # NoValue =>
        MapContent(all_query.returned) = MapContent(CopyOf(all_query.at_call))

WellFormedState(s) ==
    \/ s = [status |-> "not_found"]
    \/ /\ {"status", "current_step", "progress", "steps"} \subseteq DOMAIN s
       /\ s.status \in {"running", "completed", "error"}

RequiredConfig(s) ==
    CASE s = "firecrawl" -> {"FIRECRAWL_API_KEY"}
      [] s = "web_search" -> {"SEARCH_API_KEY"}
      [] s = "gmail" -> {"GMAIL_CLIENT_ID", "GMAIL_CLIENT_SECRET"}
      [] s = "slack" -> {"SLACK_BOT_TOKEN"}
      [] s = "notion" -> {"NOTION_API_KEY"}
      [] OTHER -> {}

\* C27: is_server_available is true exactly for a registered server all of
\* whose required configuration values are present and non-empty, and for a
\* registered server it agrees with validate_server_requirements: available
\* iff valid iff the list of issues is empty.
C27_Availability ==
    /\ \A s \in ServerNames :
          IsServerAvailable(s) <=>
              (s \in RegisteredServers /\ \A k \in RequiredConfig(s) : env[k] # "")
    /\ \A s \in RegisteredServers :
          /\ IsServerAvailable(s) = ValidateServerRequirements(s).valid
          /\ ValidateServerRequirements(s).valid <=> (ValidateServerRequirements(s).issues = {})
          /\ Cardinality(ValidateServerRequirements(s).issues)
                = Cardinality({k \in RequiredConfig(s) : env[k] = ""})

\* C27 witness: one of the two Gmail values is missing: gmail is not
\* available with one issue, slack and chart are, an unregistered name is not
C27_Witness ==
    /\ env["GMAIL_CLIENT_ID"] # "" /\ env["GMAIL_CLIENT_SECRET"] = ""
    /\ ~IsServerAvailable("gmail")
    /\ Cardinality(ValidateServerRequirements("gmail").issues) = 1
    /\ IsServerAvailable("slack") /\ IsServerAvailable("chart")
    /\ ~IsServerAvailable("unregistered")
    /\ phase = "initialized"

\* C30: process_data returns an envelope with status success or error, and
\* raises nothing, for every collection envelope with status success,
\* the one with no site (raw_data empty, total_sites 0) included.
C30_ProcessDataReturns ==
    (proc # NoValue /\ proc.collected_data.status = "success") =>
        /\ proc.outcome.raised = "none"
        /\ proc.outcome.value.status \in {"success", "error"}

\* C31: collect_information returns a success envelope whatever the MCP
\* collection gave; the legacy search ran exactly when the MCP collection
\* gave fewer than 3 records, and when it was skipped the envelope holds the
\* MCP records alone.
C31_CollectorReturns ==
    (coll # NoValue /\ coll.pc = "done") =>
        /\ coll.outcome.raised = "none"
        /\ coll.outcome.value.status = "success"
        /\ (coll.urls # NoValue) <=> (Len(coll.mcp_data) < 3)
        /\ (Len(coll.mcp_data) >= 3) => (coll.outcome.value.raw_data = coll.mcp_data)

(***************************************************************************)
(*                 Further properties of the orchestrator                  *)
(***************************************************************************)

\* C32: in every state a status poll returns while a run is going on,
\* progress is 100 only if status is completed, and status is completed only
\* if progress is 100 and 'result' and 'end_time' are stored.
C32_PollConsistent ==
    (query # NoValue /\ "progress" \in DOMAIN query.result) =>
        LET s == query.result IN
        /\ (s.progress = 100) => (s.status = "completed")
        /\ (s.status = "completed") =>
              /\ s.progress = 100
              /\ "result" \in DOMAIN s
              /\ "end_time" \in DOMAIN s

\* call r has stored its WorkflowState (lines 49-55) and not yet returned
Started(r) == pc[r] \notin {"idle", "raised", "returned"}

\* C33: termination. When every stage that is invoked returns or raises,
\* every call that has stored its WorkflowState returns, and the state of its
\* request_id gets status completed or error: none stays running for ever.
C33_Termination ==
    \A r \in 1..NumStoreRuns :
        Started(r) ~> (pc[r] = "returned" /\ Entry(r).status \in {"completed", "error"})

\* C33 witness: a call has returned with its stored state terminal, one
\* through the error path after a stage that was invoked
C33_Witness ==
    \E r \in Runs :
        /\ pc[r] = "returned"
        /\ Entry(r).status = "error"
        /\ invoked[r] # <<>>
        /\ \A q \in Runs : pc[q] \in {"idle", "returned"}

(***************************************************************************)
(*                   Properties of the chat application                    *)
(***************************************************************************)

\* what workflow_results holds for stage k: an envelope, or None
StoredResult(k) == chat.workflow_results[ResultKeys[k]]

\* C34: process_user_request is fail-fast. When it returns, the status is
\* 'completed' exactly when all four stage results are stored with status
\* success; after a stage that returned an envelope whose status is not
\* success the status is 'failed', the results of the later stages are None
\* and no later stage was invoked; after a stage that raised the status is
\* 'error', and the call returns all the same.
C34_FailFast ==
    (chat # NoValue /\ chat.pc = "done") =>
        /\ (chat.workflow_results.status = "completed") <=>
              \A k \in 1..4 :
                 /\ StoredResult(k) # NoValue
                 /\ Get(StoredResult(k), "status", "unknown") = "success"
        /\ \A k \in 1..4 :
              (/\ StoredResult(k) # NoValue
               /\ "status" \in DOMAIN StoredResult(k)
               /\ StoredResult(k).status # "success")
                 => /\ chat.workflow_results.status = "failed"
                    /\ \A j \in (k + 1)..4 : StoredResult(j) = NoValue
                    /\ chat.invoked = SubSeq(StepNames, 1, k)
        /\ (chat.raised # 0) =>
              /\ chat.workflow_results.status = "error"
              /\ \A j \in chat.raised..4 : StoredResult(j) = NoValue
              /\ chat.invoked = SubSeq(StepNames, 1, chat.raised)

\* C34 witness: the call has ended at the second stage, which returned an
\* error envelope after a successful first stage
C34_Witness ==
    /\ chat # NoValue /\ chat.pc = "done"
    /\ chat.workflow_results.status = "failed"
    /\ StoredResult(1) # NoValue /\ StoredResult(1).status = "success"
    /\ StoredResult(2) # NoValue /\ StoredResult(2).status = "error"
    /\ chat.invoked = <<"collection", "processing">>

\* the executor of stage k was entered by call r of execute_workflow, and by
\* the call of process_user_request
OrchEntered(r, k) ==
    k <= Len(invoked[r]) /\ CalledOperation(k) = ProvidedOperation(k)
ChatEntered(k) ==
    k <= Len(chat.invoked) /\ ChatCalledOperation(k) = ProvidedOperation(k)

\* how the executor of stage k ended there
OrchKind(r, k) ==
    IF StepNames[k] \in DOMAIN results[r]
    THEN Get(results[r][StepNames[k]], "status", "no_status")
    ELSE "raises"
ChatKind(k) ==
    IF chat.raised = k THEN "raises" ELSE Get(StoredResult(k), "status", "no_status")

\* C35: the two drivers agree. When execute_workflow and process_user_request
\* have both returned for the same user request, and each executor entered by
\* both ended the same way in both, execute_workflow returned status success
\* exactly when process_user_request returned status completed, and both
\* invoked the same stages in the same order.
C35_DriversAgree ==
    \A r \in 1..NumStoreRuns :
        (/\ pc[r] = "returned"
         /\ chat # NoValue /\ chat.pc = "done"
         /\ ureq[r] = chat.workflow_results.user_request
         /\ \A k \in 1..4 : (OrchEntered(r, k) /\ ChatEntered(k)) => OrchKind(r, k) = ChatKind(k))
            => /\ (ret[r].status = "success") <=> (chat.workflow_results.status = "completed")
               /\ invoked[r] = chat.invoked

(***************************************************************************)
(*                   Properties of the reporting agent                     *)
(***************************************************************************)

\* the status a block stores for the way it ended
StatusFor(kind) ==
    CASE kind = "success" -> "success"
      [] kind = "failed" -> "failed"
      [] kind = "raises" -> "error"

\* C36: the five channels are attempted in the order gmail, slack, notion,
\* chart, markdown, each whatever the earlier ones ended with: every
\* attempted channel has the status of its own outcome (success, failed or
\* error), all five were attempted when the distribution is over, and
\* generate_report returns status success whatever the outcomes were.
C36_IndependentChannels ==
    dist # NoValue =>
        /\ IsPrefix(dist.attempts, Channels)
        /\ \A i \in 1..Len(dist.attempts) :
              /\ dist.distribution_results[Channels[i]].status = StatusFor(dist.kinds[i])
              /\ dist.distribution_results[Channels[i]].status \in {"success", "failed", "error"}
        /\ (dist.has_mcp /\ dist.pc \in {"save", "done"}) => (dist.attempts = Channels)
        /\ (dist.pc = "done") =>
              /\ dist.outcome.raised = "none"
              /\ dist.outcome.value.status = "success"
              /\ dist.outcome.value.data.distribution_results = dist.distribution_results

\* C36 witness: generate_report has returned after a distribution in which
\* gmail raised, slack failed, notion raised, and chart and markdown succeeded
C36_Witness ==
    /\ dist # NoValue /\ dist.pc = "done"
    /\ dist.kinds = <<"raises", "failed", "raises", "success", "success">>
    /\ dist.outcome.value.status = "success"
    /\ dist.outcome.value.data.distribution_results["markdown_document"].status = "success"

(***************************************************************************)
(*                     Properties of the HTTP server                       *)
(***************************************************************************)

HasUserRequestField(body) == body.type = "object" /\ "user_request" \in body.names

\* C37: a POST /workflow/execute request whose body is missing or has no
\* 'user_request' field is answered with HTTP 400, starts no run and leaves
\* the workflow store as it was.
C37_RejectedRequest ==
    (http # NoValue /\ http.pc = "responded" /\ ~HasUserRequestField(http.body)) =>
        /\ http.response.code = 400
        /\ http.response.status = "error"
        /\ http.run = 0
        /\ workflow_status = http.store_before
====
